---- MODULE Spec2Model ----
(***************************************************************************)
(* Order-processing pipeline of the compounding back end: the production   *)
(* workflow state machine (ProductionWorkflowService), the order service   *)
(* (ProductionService.createProduction / validateAndCalculate) and the     *)
(* audit log (AuditService.logAction).                                     *)
(*                                                                         *)
(* Every service call is an async function; it is modelled as a call slot  *)
(* that moves from one awaited database operation to the next.  The code   *)
(* that runs between two awaits is synchronous and is part of the step of  *)
(* the await that precedes it.                                             *)
(***************************************************************************)
EXTENDS Integers, Sequences, FiniteSets, TLC

(***************************************************************************)
(* Bounds of the model.                                                    *)
(***************************************************************************)
NumSlots == 2        \* service calls that can be in flight at once
MaxCalls == 3        \* service calls started in one behaviour of Spec
MaxDirectCalls == 2  \* service calls started in one behaviour of SpecDirect
MaxClock == 2        \* the clock reads 0..MaxClock
NumUsers == 2        \* user ids 1..NumUsers
MaxPairCalls == 2
MaxCatalogId == 2
MaxOrders == 1       \* orders that can exist

None == -1           \* an unset optional field (undefined / null)

Slots == 1..NumSlots
Users == 1..NumUsers
OrderIds == 1..MaxOrders

(***************************************************************************)
(* Types of the workflow.                                                  *)
(***************************************************************************)
ProductionState ==
  <<"CREADO", "VALIDADO", "CALCULADO", "PROGRAMADO",
    "PRODUCIDO", "QC", "ETIQUETADO", "FINALIZADO">>

StateNames == {ProductionState[i] : i \in 1..Len(ProductionState)}

UserRole == {"AUXILIAR", "QUIMICO", "COORDINADOR", "AUDITOR"}

\* Position of a state in the canonical order (1 = CREADO .. 8 = FINALIZADO).
Pos(s) == CHOOSE i \in 1..Len(ProductionState) : ProductionState[i] = s

\* The one element of a singleton set.  The({e(x) : x \in {v}}) is e(v) with v
\* computed once.
The(S) == CHOOSE x \in S : TRUE

includes(seq, x) == \E i \in 1..Len(seq) : seq[i] = x

\* HTTP status codes carried by ResponseError; OK is a normal return.
OK == 200
BadRequest == 400
Forbidden == 403
NotFound == 404
ServerError == 500

(***************************************************************************)
(* ProductionWorkflowService: the two tables and the checks on them.       *)
(***************************************************************************)
\* Mutant: the table also lets an order skip from CALCULADO to PRODUCIDO.
STATE_TRANSITIONS_skip ==
  [CREADO     |-> <<"VALIDADO">>,
   VALIDADO   |-> <<"CALCULADO">>,
   CALCULADO  |-> <<"PROGRAMADO", "PRODUCIDO">>,
   PROGRAMADO |-> <<"PRODUCIDO">>,
   PRODUCIDO  |-> <<"QC">>,
   QC         |-> <<"ETIQUETADO">>,
   ETIQUETADO |-> <<"FINALIZADO">>,
   FINALIZADO |-> <<>>]

STATE_TRANSITIONS ==
  [CREADO     |-> <<"VALIDADO">>,
   VALIDADO   |-> <<"CALCULADO">>,
   CALCULADO  |-> <<"PROGRAMADO">>,
   PROGRAMADO |-> <<"PRODUCIDO">>,
   PRODUCIDO  |-> <<"QC">>,
   QC         |-> <<"ETIQUETADO">>,
   ETIQUETADO |-> <<"FINALIZADO">>,
   FINALIZADO |-> <<>>]

\* Mutant: PROGRAMADO admits the same roles as its neighbours.
ROLE_PERMISSIONS_programado ==
  [CREADO     |-> {"AUXILIAR", "QUIMICO", "COORDINADOR"},
   VALIDADO   |-> {"QUIMICO", "COORDINADOR"},
   CALCULADO  |-> {"QUIMICO", "COORDINADOR"},
   PROGRAMADO |-> {"QUIMICO", "COORDINADOR"},
   PRODUCIDO  |-> {"QUIMICO", "COORDINADOR"},
   QC         |-> {"QUIMICO", "COORDINADOR"},
   ETIQUETADO |-> {"AUXILIAR", "QUIMICO", "COORDINADOR"},
   FINALIZADO |-> {"COORDINADOR"}]

ROLE_PERMISSIONS ==
  [CREADO     |-> {"AUXILIAR", "QUIMICO", "COORDINADOR"},
   VALIDADO   |-> {"QUIMICO", "COORDINADOR"},
   CALCULADO  |-> {"QUIMICO", "COORDINADOR"},
   PROGRAMADO |-> {"COORDINADOR"},
   PRODUCIDO  |-> {"QUIMICO", "COORDINADOR"},
   QC         |-> {"QUIMICO", "COORDINADOR"},
   ETIQUETADO |-> {"AUXILIAR", "QUIMICO", "COORDINADOR"},
   FINALIZADO |-> {"COORDINADOR"}]

\* OK when the transition is allowed, else the status of the error thrown.
validateTransition(currentState, newState) ==
  IF includes(STATE_TRANSITIONS[currentState], newState) THEN OK ELSE BadRequest

validateRolePermission(state, userRole) ==
  IF userRole \in ROLE_PERMISSIONS[state] THEN OK ELSE Forbidden

\* The next state, or None for the final state.
getNextState(currentState) ==
  IF Len(STATE_TRANSITIONS[currentState]) > 0
    THEN STATE_TRANSITIONS[currentState][1]
    ELSE "NINGUNO"

(***************************************************************************)
(* Strings the code inspects are sequences of one-character strings.       *)
(***************************************************************************)
Digits == <<"0", "1", "2", "3", "4", "5", "6", "7", "8", "9">>
DigitChars == {Digits[i] : i \in 1..Len(Digits)}
UpperChars == {"G", "I", "L", "M", "U"}
LowerChars == {"g", "i", "l", "m", "u"}
WordChars == DigitChars \cup UpperChars \cup LowerChars \cup {"_"}
SpaceChars == {" "}

\* String.prototype.toLowerCase on one character and on a string.
lowerChar(ch) ==
  CASE ch = "G" -> "g" [] ch = "I" -> "i" [] ch = "L" -> "l"
    [] ch = "M" -> "m" [] ch = "U" -> "u" [] OTHER -> ch

toLowerCase(str) == [i \in 1..Len(str) |-> lowerChar(str[i])]

DigitVal(ch) == (CHOOSE i \in 1..Len(Digits) : Digits[i] = ch) - 1

RECURSIVE RunLen(_, _, _)
\* Length of the longest run of characters of class cls that starts at p.
RunLen(str, p, cls) ==
  IF p <= Len(str) /\ str[p] \in cls THEN 1 + RunLen(str, p + 1, cls) ELSE 0

RECURSIVE DigitsToNat(_)
DigitsToNat(ds) ==
  IF Len(ds) = 0 THEN 0
  ELSE 10 * DigitsToNat(SubSeq(ds, 1, Len(ds) - 1)) + DigitVal(ds[Len(ds)])

RECURSIVE Pow10(_)
Pow10(k) == IF k = 0 THEN 1 ELSE 10 * Pow10(k - 1)

NoMatch == [ok |-> FALSE, num |-> 0, den |-> 1, unidad |-> <<>>]

\* The part of the pattern after the number, \s*(\w+)\s*\/\s*ml, tried with
\* the number taken as str[i..p-1], of which the last f characters follow a dot.
\* Each of these quantifiers is followed by a character outside its class, so
\* only its longest run can match.
MatchRest(str, i, p, f) ==
  LET ip == IF f = 0 THEN SubSeq(str, i, p - 1) ELSE SubSeq(str, i, p - f - 2)
      fp == IF f = 0 THEN <<>> ELSE SubSeq(str, p - f, p - 1)
  IN The({The({The({The({
       IF /\ w >= 1
          /\ r <= Len(str) /\ str[r] = "/"
          /\ t + 1 <= Len(str)
          /\ lowerChar(str[t]) = "m" /\ lowerChar(str[t + 1]) = "l"
       THEN [ok |-> TRUE,
             num |-> DigitsToNat(ip \o fp), den |-> Pow10(f),
             unidad |-> SubSeq(str, q, q + w - 1)]
       ELSE NoMatch
       : t \in {r + 1 + RunLen(str, r + 1, SpaceChars)}})
       : r \in {q + w + RunLen(str, q + w, SpaceChars)}})
       : w \in {RunLen(str, q, WordChars)}})
       : q \in {p + RunLen(str, p, SpaceChars)}})

RECURSIVE MatchFraction(_, _, _, _)
\* (?:\.\d+)? after the digits str[i..e-1]: the longest fraction first, then
\* shorter ones, then none.
MatchFraction(str, i, e, f) ==
  IF f = 0 THEN MatchRest(str, i, e, 0)
  ELSE The({IF m.ok THEN m ELSE MatchFraction(str, i, e, f - 1)
            : m \in {MatchRest(str, i, e + 1 + f, f)}})

RECURSIVE MatchDigits(_, _, _)
\* \d+ from position i: the longest run first, then shorter ones.
MatchDigits(str, i, d) ==
  IF d = 0 THEN NoMatch
  ELSE LET e == i + d
           F == IF e <= Len(str) /\ str[e] = "." THEN RunLen(str, e + 1, DigitChars) ELSE 0
       IN The({IF m.ok THEN m ELSE MatchDigits(str, i, d - 1)
               : m \in {MatchFraction(str, i, e, F)}})

RECURSIVE MatchFrom(_, _)
\* String.prototype.match without the g flag: the leftmost match.
MatchFrom(str, i) ==
  IF i > Len(str) THEN NoMatch
  ELSE The({IF m.ok THEN m ELSE MatchFrom(str, i + 1)
            : m \in {MatchDigits(str, i, RunLen(str, i, DigitChars))}})

\* concentracion.match(/(\d+(?:\.\d+)?)\s*(\w+)\s*\/\s*ml/i): the number as the
\* fraction num/den, the unit as written.
concentracionMatch(concentracion) == MatchFrom(concentracion, 1)

(***************************************************************************)
(* JavaScript numbers.  A finite number is [s, m, e] for s * m * 2^e with  *)
(* the sign s in {1, -1} and the significand m a natural number below 2^53 *)
(* held in limbs, least significant first, without leading zero limb.  The *)
(* numbers met here are far from the largest and smallest exponents.       *)
(***************************************************************************)
LimbBits == 15
LimbBase == 32768
SignificandBits == 53

RECURSIVE Pow2(_)
Pow2(k) == IF k = 0 THEN 1 ELSE 2 * Pow2(k - 1)

RECURSIVE BigOf(_)
BigOf(n) == IF n = 0 THEN <<>> ELSE <<n % LimbBase>> \o BigOf(n \div LimbBase)

RECURSIVE BigToInt(_)
BigToInt(x) == IF Len(x) = 0 THEN 0 ELSE Head(x) + LimbBase * BigToInt(Tail(x))

RECURSIVE TrimTo(_, _)
TrimTo(x, n) == IF n > 0 /\ x[n] = 0 THEN TrimTo(x, n - 1) ELSE SubSeq(x, 1, n)

RECURSIVE SmallBits(_)
SmallBits(n) == IF n = 0 THEN 0 ELSE 1 + SmallBits(n \div 2)

BitLen(x) == IF Len(x) = 0 THEN 0 ELSE LimbBits * (Len(x) - 1) + SmallBits(x[Len(x)])

IsOdd(x) == Len(x) > 0 /\ x[1] % 2 = 1

RECURSIVE CmpFrom(_, _, _)
CmpFrom(x, y, i) ==
  IF i = 0 THEN 0
  ELSE IF x[i] > y[i] THEN 1
  ELSE IF x[i] < y[i] THEN -1
  ELSE CmpFrom(x, y, i - 1)

BigCmp(x, y) ==
  IF Len(x) > Len(y) THEN 1
  ELSE IF Len(x) < Len(y) THEN -1
  ELSE CmpFrom(x, y, Len(x))

RECURSIVE AddFrom(_, _, _, _)
AddFrom(x, y, i, carry) ==
  IF i > Len(x) /\ i > Len(y) THEN BigOf(carry)
  ELSE \* one limb of the sum, then the rest
    LET t == (IF i <= Len(x) THEN x[i] ELSE 0) + (IF i <= Len(y) THEN y[i] ELSE 0) + carry
    IN <<t % LimbBase>> \o AddFrom(x, y, i + 1, t \div LimbBase)

BigAdd(x, y) == AddFrom(x, y, 1, 0)

RECURSIVE SubFrom(_, _, _, _)
SubFrom(x, y, i, borrow) ==
  IF i > Len(x) THEN <<>>
  ELSE
    LET d == x[i] - (IF i <= Len(y) THEN y[i] ELSE 0) - borrow
    IN IF d < 0 THEN <<d + LimbBase>> \o SubFrom(x, y, i + 1, 1)
       ELSE <<d>> \o SubFrom(x, y, i + 1, 0)

\* x - y for x >= y.
BigSub(x, y) == The({TrimTo(d, Len(d)) : d \in {SubFrom(x, y, 1, 0)}})

RECURSIVE MulFrom(_, _, _, _)
MulFrom(x, k, i, carry) ==
  IF i > Len(x) THEN BigOf(carry)
  ELSE <<(x[i] * k + carry) % LimbBase>>
         \o MulFrom(x, k, i + 1, (x[i] * k + carry) \div LimbBase)

\* x * k for 0 <= k < LimbBase.
BigMul(x, k) == IF k = 0 THEN <<>> ELSE MulFrom(x, k, 1, 0)

\* x * 2^k.
BigShl(x, k) ==
  IF Len(x) = 0 THEN <<>>
  ELSE [i \in 1..(k \div LimbBits) |-> 0] \o BigMul(x, Pow2(k % LimbBits))

\* x \div 2.
BigShr1(x) ==
  The({TrimTo(h, Len(h))
       : h \in {[i \in 1..Len(x) |->
                   x[i] \div 2 + (IF i < Len(x) THEN (x[i + 1] % 2) * (LimbBase \div 2)
                                  ELSE 0)]}})

RECURSIVE ShrSticky(_, _, _)
\* x \div 2^k, and whether a one was shifted out or sticky holds.
ShrSticky(x, k, sticky) ==
  IF k = 0 \/ Len(x) = 0 THEN [q |-> x, sticky |-> sticky]
  ELSE IF k >= LimbBits THEN ShrSticky(Tail(x), k - LimbBits, sticky \/ Head(x) # 0)
  ELSE The({ShrSticky(h, k - 1, sticky \/ IsOdd(x)) : h \in {BigShr1(x)}})

Finite(s, m, e) == [s |-> s, m |-> m, e |-> e]

\* The number nearest to s * m * 2^e, plus a nonzero rest below its last bit
\* when sticky holds: round to nearest, ties to even.
RoundToDouble(s, m, e, sticky) ==
  IF BitLen(m) <= SignificandBits THEN Finite(s, m, e)
  ELSE
    The({The({The({
      IF IsOdd(sh.q) /\ (sh.sticky \/ IsOdd(q))
        THEN Finite(s, BigAdd(q, <<1>>), e + drop)
        ELSE Finite(s, q, e + drop)
      : q \in {BigShr1(sh.q)}})
      : sh \in {ShrSticky(m, drop - 1, sticky)}})
      : drop \in {BitLen(m) - SignificandBits}})

FromInt(n) == Finite(IF n < 0 THEN -1 ELSE 1, BigOf(IF n < 0 THEN 0 - n ELSE n), 0)

IsZero(x) == Len(x.m) = 0

ChunkBits == 14

RECURSIVE DivLoop(_, _, _, _)
\* i more bits of the quotient r / d for r < d, after the bits q: the bits,
\* the rest, and how many bits were left when the rest became zero.
DivLoop(r, d, q, i) ==
  IF i = 0 \/ Len(r) = 0 THEN [q |-> q, r |-> r, left |-> i]
  ELSE
    The({
      IF BigCmp(r2, d) >= 0
        THEN The({DivLoop(r3, d, q3, i - 1)
                  : r3 \in {BigSub(r2, d)}, q3 \in {BigAdd(q2, <<1>>)}})
        ELSE DivLoop(r2, d, q2, i - 1)
      : r2 \in {BigMul(r, 2)}, q2 \in {BigMul(q, 2)}})

\* ChunkBits more bits after those of o.
DivChunk(o, d) ==
  The({[q |-> n.q, r |-> n.r, left |-> o.left + n.left]
       : n \in {DivLoop(o.r, d, o.q, ChunkBits)}})

\* 4 * ChunkBits = SignificandBits + 3 bits of the quotient r / d.
DivBits(r, d) ==
  The({The({The({DivChunk(o3, d)
       : o3 \in {DivChunk(o2, d)}})
       : o2 \in {DivChunk(o1, d)}})
       : o1 \in {DivChunk([q |-> <<>>, r |-> r, left |-> 0], d)}})

\* x / y for y # 0.
DivideOf(x, y) ==
  IF IsZero(x) THEN x
  ELSE
    The({The({
      RoundToDouble(x.s * y.s, out.q,
                    x.e - y.e + bx - by + 1 + out.left - 4 * ChunkBits,
                    Len(out.r) # 0)
      : out \in {The({DivBits(r, d)
                       : r \in {BigShl(x.m, (IF bx > by THEN bx ELSE by) - bx)},
                         d \in {BigShl(y.m, (IF bx > by THEN bx ELSE by) + 1 - by)}})}})
      : bx \in {BitLen(x.m)}, by \in {BitLen(y.m)}})

Divide(x, y) == The({DivideOf(v, w) : v \in {x}, w \in {y}})

\* x * k for an integer k with |k| < LimbBase.
Times(x, k) ==
  The({The({RoundToDouble(IF k < 0 THEN 0 - v.s ELSE v.s, p, v.e, FALSE)
            : p \in {BigMul(v.m, IF k < 0 THEN 0 - k ELSE k)}})
       : v \in {x}})

\* x + y for x, y >= 0.
PlusOf(x, y) ==
  IF IsZero(y) THEN x
  ELSE IF IsZero(x) THEN y
  ELSE IF x.e >= y.e
    THEN The({RoundToDouble(1, t, y.e, FALSE)
              : t \in {BigAdd(BigShl(x.m, x.e - y.e), y.m)}})
    ELSE The({RoundToDouble(1, t, x.e, FALSE)
              : t \in {BigAdd(BigShl(y.m, y.e - x.e), x.m)}})

Plus(x, y) == The({PlusOf(v, w) : v \in {x}, w \in {y}})

\* The sign of x, the integer part of |x|, its first fraction bit and whether
\* more follow.
PartsOf(x) ==
  IF x.e >= 0
    THEN [s |-> x.s, int |-> BigToInt(BigShl(x.m, x.e)), half |-> FALSE, more |-> FALSE]
    ELSE The({[s |-> x.s, int |-> BigToInt(BigShr1(sh.q)), half |-> IsOdd(sh.q),
               more |-> sh.sticky]
              : sh \in {ShrSticky(x.m, (0 - x.e) - 1, FALSE)}})

Parts(x) == The({PartsOf(v) : v \in {x}})

\* Math.round: the nearest integer, a tie towards +Infinity.
MathRound(x) ==
  The({IF p.s = 1 THEN p.int + (IF p.half THEN 1 ELSE 0)
       ELSE 0 - (p.int + (IF p.half /\ p.more THEN 1 ELSE 0))
       : p \in {Parts(x)}})

\* Math.ceil.
MathCeil(x) ==
  The({IF p.s = 1 THEN p.int + (IF p.half \/ p.more THEN 1 ELSE 0)
       ELSE 0 - p.int
       : p \in {Parts(x)}})

(***************************************************************************)
(* CalculationEngineService.  A volume v is held as the integer n of its   *)
(* hundredths: it stands for the number that n / 100 evaluates to, which   *)
(* is what Math.round(x * 100) / 100 returns when Math.round gives n.  A   *)
(* result is [status, value, message]: status OK, or the status and the    *)
(* message of the error thrown.                                            *)
(***************************************************************************)
\* The results of a division by zero, which throws nothing.
Infinity == 2147483647
NaN == 2147483646
IsNumber(n) == n \notin {Infinity, 0 - Infinity, NaN}

Fail(st, message) == [status |-> st, value |-> 0, message |-> message]
Ok(v) == [status |-> OK, value |-> v, message |-> ""]

\* parseFloat(concentracionMatch[1]): the number nearest to the decimal.
parseFloat(m) == Divide(FromInt(m.num), FromInt(m.den))

\* The number n / 100.
Hundredths(n) == Divide(FromInt(n), FromInt(100))

\* dosisPrescrita is a whole number of units.
calculateVolumenExtraer(dosisPrescrita, unidadDosis, concentracion) ==
  The({IF ~m.ok THEN Fail(BadRequest, "Formato de concentracion invalido")
       ELSE IF toLowerCase(unidadDosis) # toLowerCase(m.unidad)
         THEN Fail(BadRequest, "Unidades no coinciden")
       ELSE IF m.num = 0
         THEN Ok(IF dosisPrescrita = 0 THEN NaN
                 ELSE IF dosisPrescrita > 0 THEN Infinity ELSE 0 - Infinity)
       ELSE Ok(MathRound(Times(Divide(FromInt(dosisPrescrita), parseFloat(m)), 100)))
       : m \in {concentracionMatch(concentracion)}})

\* volumenPresentacion and unidadesPresentacion are whole numbers.
calculateUnidadesInsumo(volumenExtraer, volumenPresentacion, unidadesPresentacion) ==
  IF volumenPresentacion <= 0
    THEN Fail(BadRequest, "Volumen de presentacion debe ser mayor a 0")
  ELSE IF ~IsNumber(volumenExtraer)
    THEN Ok(IF volumenExtraer = NaN \/ unidadesPresentacion = 0 THEN NaN
            ELSE IF unidadesPresentacion > 0 THEN volumenExtraer
            ELSE 0 - volumenExtraer)
  ELSE Ok(MathCeil(Times(Divide(Hundredths(volumenExtraer),
                                FromInt(volumenPresentacion)),
                         unidadesPresentacion)))

\* The two volumes have the same sign.
calculateVolumenFinal(volumenExtraer, volumenVehiculo) ==
  IF ~IsNumber(volumenExtraer) THEN volumenExtraer
  ELSE MathRound(Times(Plus(Hundredths(volumenExtraer), Hundredths(volumenVehiculo)),
                       100))

calculateFechaVencimiento(ahora, horasEstabilidad) ==
  IF horasEstabilidad <= 0
    THEN Fail(BadRequest, "Horas de estabilidad deben ser mayores a 0")
    ELSE Ok(ahora + horasEstabilidad)

\* generateLote: date, time and a random suffix.
generateLote(ahora, random) == [fecha |-> ahora, random |-> random]

\* No CalculationResult: the error thrown, and whether generateLote had run.
NoResult(st, message) ==
  [status |-> st, message |-> message, volumenExtraer |-> 0, volumenFinal |-> 0,
   unidadesInsumo |-> 0, lote |-> generateLote(0, 0), loteGenerado |-> FALSE,
   fechaVencimiento |-> 0]

\* input: [dosisPrescrita, unidadDosis, concentracion, volumenPresentacion,
\* unidadesPresentacion, horasEstabilidad].
\* The five steps of calculateComplete that follow its check of the dose.
calculateSteps(input, ahora, random) ==
    The({
      IF ve.status # OK THEN NoResult(ve.status, ve.message)
      ELSE
        The({
          IF ui.status # OK THEN NoResult(ui.status, ui.message)
          ELSE
            The({
              IF fv.status # OK
                THEN [NoResult(fv.status, fv.message) EXCEPT !.loteGenerado = TRUE]
                ELSE [status |-> OK, message |-> "", volumenExtraer |-> ve.value,
                      volumenFinal |-> vf, unidadesInsumo |-> ui.value,
                      lote |-> generateLote(ahora, random), loteGenerado |-> TRUE,
                      fechaVencimiento |-> fv.value]
              : vf \in {calculateVolumenFinal(ve.value, 0)},
                fv \in {calculateFechaVencimiento(ahora, input.horasEstabilidad)}})
          : ui \in {calculateUnidadesInsumo(ve.value, input.volumenPresentacion,
                                            input.unidadesPresentacion)}})
      : ve \in {calculateVolumenExtraer(input.dosisPrescrita, input.unidadDosis,
                                        input.concentracion)}})

\* A variant of calculateComplete that checks the dose after the five steps.
calculateComplete_doseLast(input, ahora, random) ==
  The({IF r.status # OK THEN r
       ELSE IF input.dosisPrescrita <= 0
         THEN NoResult(BadRequest, "Dosis prescrita debe ser mayor a 0")
       ELSE r
       : r \in {calculateSteps(input, ahora, random)}})

calculateComplete(input, ahora, random) ==
  IF input.dosisPrescrita <= 0
    THEN NoResult(BadRequest, "Dosis prescrita debe ser mayor a 0")
    ELSE calculateSteps(input, ahora, random)

(***************************************************************************)
(* The catalog collections.  cat is a record                               *)
(*   medicines  : id -> [habilitado, concentracion, presentaciones]        *)
(*   labs       : id -> [habilitado]                                       *)
(*   vehicles   : id -> [compatibleConLinea]                               *)
(*   containers : set of ids                                               *)
(*   stabilities: sequence, in insertion order, of                         *)
(*     [medicamentoId, laboratorioId, vehiculoId, envaseId, horasEstabilidad] *)
(***************************************************************************)
LineaProduccion == {"ONCO", "ESTERIL"}

\* The first of the indexes S of the matching documents, or 0: findOne returns
\* the first match in insertion order.
FirstIndex(S) ==
  IF S = {} THEN 0 ELSE CHOOSE i \in S : \A j \in S : i <= j

\* A variant of findStability whose filter leaves the laboratory out.
findStability_ignoreLab(cat, medicamentoId, laboratorioId, vehiculoId, envaseId) ==
  LET Test(st) == /\ st.medicamentoId = medicamentoId
                  /\ st.vehiculoId = vehiculoId
                  /\ st.envaseId = envaseId
  IN FirstIndex({i \in 1..Len(cat.stabilities) : Test(cat.stabilities[i])})

\* Stability.findOne({medicamentoId, laboratorioId, vehiculoId, envaseId}):
\* index of the record found, 0 for null.
findStability(cat, medicamentoId, laboratorioId, vehiculoId, envaseId) ==
  LET Test(st) == /\ st.medicamentoId = medicamentoId
                  /\ st.laboratorioId = laboratorioId
                  /\ st.vehiculoId = vehiculoId
                  /\ st.envaseId = envaseId
  IN FirstIndex({i \in 1..Len(cat.stabilities) : Test(cat.stabilities[i])})

\* Stability.findOne({medicamentoId, vehiculoId, envaseId}) of ProductionService.
findStabilityNoLab(cat, medicamentoId, vehiculoId, envaseId) ==
  LET Test(st) == /\ st.medicamentoId = medicamentoId
                  /\ st.vehiculoId = vehiculoId
                  /\ st.envaseId = envaseId
  IN FirstIndex({i \in 1..Len(cat.stabilities) : Test(cat.stabilities[i])})

\* A variant of calculateFromDatabase that takes the last presentation.
calculateFromDatabase_lastPresentation(cat, medicamentoId, laboratorioId, vehiculoId, envaseId, dosisPrescrita, unidadDosis, ahora, random) ==
  IF medicamentoId \notin DOMAIN cat.medicines
    THEN NoResult(NotFound, "Medicamento no encontrado")
  ELSE
    LET medicamento == cat.medicines[medicamentoId]
        e == findStability(cat, medicamentoId, laboratorioId, vehiculoId, envaseId)
    IN IF e = 0 THEN NoResult(NotFound, "Estabilidad no encontrada")
       ELSE IF Len(medicamento.presentaciones) = 0
         THEN NoResult(BadRequest, "Medicamento no tiene presentaciones")
       ELSE calculateComplete(
              [dosisPrescrita |-> dosisPrescrita,
               unidadDosis |-> unidadDosis,
               concentracion |-> medicamento.concentracion,
               volumenPresentacion |-> medicamento.presentaciones[Len(medicamento.presentaciones)].volumen,
               unidadesPresentacion |-> medicamento.presentaciones[Len(medicamento.presentaciones)].cantidad,
               horasEstabilidad |-> cat.stabilities[e].horasEstabilidad],
              ahora, random)

calculateFromDatabase(cat, medicamentoId, laboratorioId, vehiculoId, envaseId, dosisPrescrita, unidadDosis, ahora, random) ==
  IF medicamentoId \notin DOMAIN cat.medicines
    THEN NoResult(NotFound, "Medicamento no encontrado")
  ELSE
    LET medicamento == cat.medicines[medicamentoId]
        e == findStability(cat, medicamentoId, laboratorioId, vehiculoId, envaseId)
    IN IF e = 0 THEN NoResult(NotFound, "Estabilidad no encontrada")
       ELSE IF Len(medicamento.presentaciones) = 0
         THEN NoResult(BadRequest, "Medicamento no tiene presentaciones")
       ELSE calculateComplete(
              [dosisPrescrita |-> dosisPrescrita,
               unidadDosis |-> unidadDosis,
               concentracion |-> medicamento.concentracion,
               volumenPresentacion |-> medicamento.presentaciones[1].volumen,
               unidadesPresentacion |-> medicamento.presentaciones[1].cantidad,
               horasEstabilidad |-> cat.stabilities[e].horasEstabilidad],
              ahora, random)

(***************************************************************************)
(* DomainValidationService: each check returns its list of error messages. *)
(***************************************************************************)
validateMedicine(cat, medicamentoId) ==
  IF medicamentoId \notin DOMAIN cat.medicines THEN <<"Medicamento no encontrado">>
  ELSE IF ~cat.medicines[medicamentoId].habilitado
    THEN <<"Medicamento no habilitado">>
    ELSE <<>>

validateLab(cat, laboratorioId) ==
  IF laboratorioId \notin DOMAIN cat.labs THEN <<"Laboratorio no encontrado">>
  ELSE IF ~cat.labs[laboratorioId].habilitado
    THEN <<"Laboratorio no habilitado">>
    ELSE <<>>

validateVehicle(cat, vehiculoId, lineaProductiva) ==
  IF vehiculoId \notin DOMAIN cat.vehicles THEN <<"Vehiculo no encontrado">>
  ELSE IF lineaProductiva \notin cat.vehicles[vehiculoId].compatibleConLinea
    THEN <<"Vehiculo no compatible con linea">>
    ELSE <<>>

validateContainer(cat, envaseId) ==
  IF envaseId \notin cat.containers THEN <<"Envase no encontrado">> ELSE <<>>

validateStability(cat, data) ==
  IF findStability(cat, data.medicamentoId, data.laboratorioId,
                   data.vehiculoId, data.envaseId) = 0
    THEN <<"No existe estabilidad registrada">>
    ELSE <<>>

\* A variant of allErrors that stops at the first check that fails.
allErrors_firstOnly(cat, data) ==
  IF validateMedicine(cat, data.medicamentoId) # <<>>
    THEN validateMedicine(cat, data.medicamentoId)
  ELSE IF validateLab(cat, data.laboratorioId) # <<>>
    THEN validateLab(cat, data.laboratorioId)
  ELSE IF validateVehicle(cat, data.vehiculoId, data.lineaProductiva) # <<>>
    THEN validateVehicle(cat, data.vehiculoId, data.lineaProductiva)
  ELSE IF validateContainer(cat, data.envaseId) # <<>>
    THEN validateContainer(cat, data.envaseId)
  ELSE validateStability(cat, data)

\* allErrors of validateCompleteDomain: the errors of the five checks, each
\* check run in turn whatever the ones before it found.
allErrors(cat, data) ==
  validateMedicine(cat, data.medicamentoId)
    \o validateLab(cat, data.laboratorioId)
    \o validateVehicle(cat, data.vehiculoId, data.lineaProductiva)
    \o validateContainer(cat, data.envaseId)
    \o validateStability(cat, data)

\* No ValidationResult: the call threw.
NoValidationResult == [isValid |-> FALSE, errors |-> <<>>]

\* validateCompleteDomain: with errors it throws ResponseError(400) whose
\* message joins them; with none it returns {isValid: true, errors: []}.
\* returned tells the two apart.
validateCompleteDomain(cat, data) ==
  The({IF Len(errs) > 0
         THEN [status |-> BadRequest, returned |-> FALSE,
               result |-> NoValidationResult, message |-> errs]
         ELSE [status |-> OK, returned |-> TRUE,
               result |-> [isValid |-> TRUE, errors |-> <<>>], message |-> <<>>]
       : errs \in {allErrors(cat, data)}})

(***************************************************************************)
(* The Production document.  The stage fields are keyed by the lower-case  *)
(* stage name: timestamps.<stage> and <stage>Por.                          *)
(***************************************************************************)
\* newState.toLowerCase()
lowerName(state) ==
  CASE state = "CREADO" -> "creado"
    [] state = "VALIDADO" -> "validado"
    [] state = "CALCULADO" -> "calculado"
    [] state = "PROGRAMADO" -> "programado"
    [] state = "PRODUCIDO" -> "producido"
    [] state = "QC" -> "qc"
    [] state = "ETIQUETADO" -> "etiquetado"
    [] state = "FINALIZADO" -> "finalizado"
    [] OTHER -> "otro"

\* The stage fields declared by TimestampsSchema and by ProductionSchema
\* (creadoPor .. finalizadoPor); a $set of any other path is dropped.
StageFields ==
  {"creado", "validado", "calculado", "programado",
   "producido", "qc", "etiquetado", "finalizado"}

\* generateProductionCode and generateLoteMezcla: a date and a random suffix.
generateProductionCode(ahora, random) == [fecha |-> ahora, random |-> random]

generateLoteMezcla(lineaProduccion, fechaProduccion, random) ==
  [fecha |-> fechaProduccion,
   linea |-> IF lineaProduccion = "ONCO" THEN "ON" ELSE "ET",
   random |-> random]

\* One pass of the loop of createProduction over data.mezclas: the status of
\* the error it throws, or OK and the IMezcla it pushes.
ProcessMezcla(cat, lineaProduccion, fechaProduccion, ahora, mezclaData, random) ==
  IF mezclaData.medicamentoId \notin DOMAIN cat.medicines
    THEN [status |-> NotFound, mezcla |-> <<>>]
  ELSE IF mezclaData.vehiculoId \notin DOMAIN cat.vehicles
    THEN [status |-> NotFound, mezcla |-> <<>>]
  ELSE IF mezclaData.envaseId \notin cat.containers
    THEN [status |-> NotFound, mezcla |-> <<>>]
  ELSE The({
    IF e = 0 THEN [status |-> NotFound, mezcla |-> <<>>]
    ELSE IF validateCompleteDomain(cat,
              [medicamentoId |-> mezclaData.medicamentoId,
               laboratorioId |-> cat.stabilities[e].laboratorioId,
               vehiculoId |-> mezclaData.vehiculoId,
               envaseId |-> mezclaData.envaseId,
               lineaProductiva |-> lineaProduccion]).status # OK
      THEN [status |-> BadRequest, mezcla |-> <<>>]
    ELSE The({
      IF resultados.status # OK
        THEN [status |-> resultados.status, mezcla |-> <<>>]
      ELSE
        LET volumenVehiculo == resultados.volumenFinal - resultados.volumenExtraer
        IN [status |-> OK,
            mezcla |-> <<
              [paciente |-> mezclaData.paciente,
               medicamento |->
                 [id |-> mezclaData.medicamentoId,
                  concentracion |-> cat.medicines[mezclaData.medicamentoId].concentracion,
                  dosisPrescrita |-> mezclaData.dosisPrescrita,
                  unidadDosis |-> mezclaData.unidadDosis],
               envase |-> [id |-> mezclaData.envaseId],
               vehiculo |-> [id |-> mezclaData.vehiculoId,
                             volumenVehiculo |-> volumenVehiculo],
               calculos |->
                 [volumenExtraer |-> resultados.volumenExtraer,
                  volumenMezcla |-> resultados.volumenExtraer,
                  volumenVehiculo |-> volumenVehiculo,
                  volumenTotal |-> resultados.volumenFinal,
                  unidadesInsumo |-> resultados.unidadesInsumo],
               loteMezcla |-> generateLoteMezcla(lineaProduccion, fechaProduccion, random),
               fechaVencimiento |-> fechaProduccion + 24,
               cantidadMezclas |-> IF mezclaData.cantidadMezclas = 0
                                     THEN 1 ELSE mezclaData.cantidadMezclas]>>]
      : resultados \in {calculateFromDatabase(cat, mezclaData.medicamentoId,
                          cat.stabilities[e].laboratorioId, mezclaData.vehiculoId,
                          mezclaData.envaseId, mezclaData.dosisPrescrita,
                          mezclaData.unidadDosis, ahora, random)}})
    : e \in {findStabilityNoLab(cat, mezclaData.medicamentoId,
                                mezclaData.vehiculoId, mezclaData.envaseId)}})

RECURSIVE ProcessMezclas(_, _, _, _, _, _)
\* The loop from mix i on: it stops at the first mix that throws.
ProcessMezclas(cat, data, fechaProduccion, ahora, randoms, i) ==
  IF i > Len(data.mezclas) THEN [status |-> OK, mezclas |-> <<>>]
  ELSE
    The({
      IF one.status # OK THEN [status |-> one.status, mezclas |-> <<>>]
      ELSE The({IF rest.status # OK THEN rest
                ELSE [status |-> OK, mezclas |-> one.mezcla \o rest.mezclas]
                : rest \in {ProcessMezclas(cat, data, fechaProduccion, ahora,
                                           randoms, i + 1)}})
      : one \in {ProcessMezcla(cat, data.lineaProduccion, fechaProduccion, ahora,
                               data.mezclas[i], randoms[i])}})

NoStage == [f \in StageFields |-> None]

\* A variant of NewProduction whose mixes are in the reverse order.
NewProduction_unshift(data, mezclas, fechaProduccion, userId, ahora, codeRandom) ==
  [codigo |-> generateProductionCode(ahora, codeRandom),
   fechaProduccion |-> fechaProduccion,
   lineaProduccion |-> data.lineaProduccion,
   cantidadMezclas |-> Len(mezclas),
   mezclas |-> [i \in 1..Len(mezclas) |-> mezclas[Len(mezclas) + 1 - i]],
   estado |-> "CREADO",
   timestamps |-> [NoStage EXCEPT !["creado"] = ahora],
   por |-> [NoStage EXCEPT !["creado"] = userId],
   createdAt |-> ahora,
   updatedAt |-> ahora]

\* A variant of NewProduction that also names the creator as the validator.
NewProduction_validado(data, mezclas, fechaProduccion, userId, ahora, codeRandom) ==
  [codigo |-> generateProductionCode(ahora, codeRandom),
   fechaProduccion |-> fechaProduccion,
   lineaProduccion |-> data.lineaProduccion,
   cantidadMezclas |-> Len(mezclas),
   mezclas |-> mezclas,
   estado |-> "CREADO",
   timestamps |-> [NoStage EXCEPT !["creado"] = ahora, !["validado"] = ahora],
   por |-> [NoStage EXCEPT !["creado"] = userId, !["validado"] = userId],
   createdAt |-> ahora,
   updatedAt |-> ahora]

\* The document that Production.create stores.
NewProduction(data, mezclas, fechaProduccion, userId, ahora, codeRandom) ==
  [codigo |-> generateProductionCode(ahora, codeRandom),
   fechaProduccion |-> fechaProduccion,
   lineaProduccion |-> data.lineaProduccion,
   cantidadMezclas |-> Len(mezclas),
   mezclas |-> mezclas,
   estado |-> "CREADO",
   timestamps |-> [NoStage EXCEPT !["creado"] = ahora],
   por |-> [NoStage EXCEPT !["creado"] = userId],
   createdAt |-> ahora,
   updatedAt |-> ahora]

\* createProduction up to and including Production.create, on the order
\* collection docs: the status, and the collection afterwards.
createProduction(cat, docs, data, userId, ahora, randoms, codeRandom) ==
  LET fechaProduccion == IF data.fechaProduccion = None THEN ahora
                         ELSE data.fechaProduccion
      id == Cardinality(DOMAIN docs) + 1
  IN IF Len(data.mezclas) = 0 THEN [status |-> BadRequest, id |-> 0, docs |-> docs]
     ELSE The({
       IF loop.status # OK THEN [status |-> loop.status, id |-> 0, docs |-> docs]
       ELSE The({
         IF \E o \in DOMAIN docs : docs[o].codigo = doc.codigo
           THEN [status |-> ServerError, id |-> 0, docs |-> docs]
           ELSE [status |-> OK, id |-> id, docs |-> docs @@ (id :> doc)]
         : doc \in {NewProduction(data, loop.mezclas, fechaProduccion, userId,
                                  ahora, codeRandom)}})
       : loop \in {ProcessMezclas(cat, data, fechaProduccion, ahora, randoms, 1)}})

\* Production.findByIdAndUpdate(productionId, {$set: updateData}) with
\* updateData = {estado, timestamps.<stage>, <stage>Por}; the schema option
\* timestamps: true also refreshes updatedAt.  The populate that follows only
\* shapes the document returned.
SetField(fields, key, value) ==
  IF key \in StageFields THEN [fields EXCEPT ![key] = value] ELSE fields

\* A variant of findByIdAndUpdate whose $set replaces the timestamps
\* subdocument instead of setting one path in it.
findByIdAndUpdate_replace(doc, newState, userId, ahora) ==
  [doc EXCEPT !.estado = newState,
              !.timestamps = SetField(NoStage, lowerName(newState), ahora),
              !.por = SetField(@, lowerName(newState), userId),
              !.updatedAt = ahora]

findByIdAndUpdate(doc, newState, userId, ahora) ==
  [doc EXCEPT !.estado = newState,
              !.timestamps = SetField(@, lowerName(newState), ahora),
              !.por = SetField(@, lowerName(newState), userId),
              !.updatedAt = ahora]

\* The document AuditLog.create stores.
AuditRecord(entidadId, accion, cambios, usuarioId, ahora) ==
  [entidad |-> "Production", entidadId |-> entidadId, accion |-> accion,
   cambios |-> cambios, usuarioId |-> usuarioId, timestamp |-> ahora]

TransitionCambios(estadoAnterior, estadoNuevo, userId) ==
  [estadoAnterior |-> estadoAnterior, estadoNuevo |-> estadoNuevo,
   usuarioId |-> userId]

CreateCambios(doc) ==
  [codigo |-> doc.codigo, cantidadMezclas |-> doc.cantidadMezclas,
   lineaProduccion |-> doc.lineaProduccion]

\* A variant of ValidateMezclas that lets every order pass.
ValidateMezclas_pass(cat, production, i) == OK

\* The validation loop of validateAndCalculate over production.mezclas: OK, or
\* the status of the first error thrown.
RECURSIVE ValidateMezclas(_, _, _)
ValidateMezclas(cat, production, i) ==
  IF i > Len(production.mezclas) THEN OK
  ELSE
    LET mezcla == production.mezclas[i]
    IN IF mezcla.medicamento.id \notin DOMAIN cat.medicines THEN NotFound
       ELSE The({
         IF e = 0 THEN NotFound
         ELSE IF validateCompleteDomain(cat,
                   [medicamentoId |-> mezcla.medicamento.id,
                    laboratorioId |-> cat.stabilities[e].laboratorioId,
                    vehiculoId |-> mezcla.vehiculo.id,
                    envaseId |-> mezcla.envase.id,
                    lineaProductiva |-> production.lineaProduccion]).status # OK
           THEN BadRequest
         ELSE ValidateMezclas(cat, production, i + 1)
         : e \in {findStabilityNoLab(cat, mezcla.medicamento.id,
                                     mezcla.vehiculo.id, mezcla.envase.id)}})

(***************************************************************************)
(* Catalog and requests of the workflow specification.                     *)
(***************************************************************************)
mg == <<"m", "g">>

DefaultCatalog ==
  [medicines |->
     (1 :> [habilitado |-> TRUE,
            concentracion |-> <<"5", "0", "m", "g", "/", "m", "l">>,
            presentaciones |-> <<[volumen |-> 2, cantidad |-> 1]>>]
      @@ 2 :> [habilitado |-> FALSE,
               concentracion |-> <<"5", "0", "m", "g", "/", "m", "l">>,
               presentaciones |-> <<[volumen |-> 2, cantidad |-> 1]>>]),
   labs |-> (1 :> [habilitado |-> TRUE]),
   vehicles |-> (1 :> [compatibleConLinea |-> {"ONCO", "ESTERIL"}]),
   containers |-> {1},
   stabilities |->
     <<[medicamentoId |-> 1, laboratorioId |-> 1, vehiculoId |-> 1,
        envaseId |-> 1, horasEstabilidad |-> 24],
       [medicamentoId |-> 2, laboratorioId |-> 1, vehiculoId |-> 1,
        envaseId |-> 1, horasEstabilidad |-> 24]>>]

MezclaData(medicamentoId, dosisPrescrita) ==
  [paciente |-> 1, medicamentoId |-> medicamentoId, vehiculoId |-> 1,
   envaseId |-> 1, dosisPrescrita |-> dosisPrescrita, unidadDosis |-> mg,
   cantidadMezclas |-> 0]

Request(mezclas) ==
  [lineaProduccion |-> "ONCO", fechaProduccion |-> None, mezclas |-> mezclas]

\* A request that succeeds, one with no mix, one with a disabled medicine.
Requests ==
  {Request(<<MezclaData(1, 100)>>), Request(<<>>), Request(<<MezclaData(2, 100)>>)}

\* The users that call the service in Spec, with the role of each.
Actors == {[user |-> 1, role |-> "COORDINADOR"], [user |-> 2, role |-> "QUIMICO"]}

\* One of them.
Actors1 == [user |-> 1, role |-> "COORDINADOR"]

MaxRandom == 0       \* random suffixes are 0..MaxRandom
Randoms == 0..MaxRandom

(***************************************************************************)
(* State.                                                                  *)
(***************************************************************************)
VARIABLES
  catalog,   \* the catalog collections
  orders,    \* the Production collection: id -> document
  audit,     \* the AuditLog collection, in insertion order
  clock,     \* the wall clock
  calls,     \* slot -> the service call running in it
  budget,    \* service calls the clients may still start
  resp,      \* the outcome of the service call that returned last
  users,     \* the User collection: id -> document
  documents, \* the Document collection, in insertion order
  cache      \* the Redis cache: the keys that are set, and the value of each

vars == <<catalog, orders, audit, clock, calls, budget, resp, users, documents, cache>>

\* A slot: pc is the awaited operation the call will perform next; estadoLeido
\* is production.estado as read by findById; reemplazado records the estado
\* that the call's update overwrote; log records what became of the call's
\* last audit insert ("stored", "failed", or "-" when it made none).
Idle ==
  [pc |-> "idle", kind |-> "-", pid |-> 0, target |-> "-", user |-> 0,
   role |-> "-", estadoLeido |-> "-", ahora |-> 0, stage |-> 0,
   reemplazado |-> "-", log |-> "-"]

NoResp ==
  [kind |-> "-", pid |-> 0, target |-> "-", user |-> 0, role |-> "-",
   estadoLeido |-> "-", status |-> 0, log |-> "-"]

\* The call in slot returns (or throws) with status.
Return(slot, status) ==
  [kind |-> slot.kind, pid |-> slot.pid, target |-> slot.target,
   user |-> slot.user, role |-> slot.role, estadoLeido |-> slot.estadoLeido,
   status |-> status, log |-> slot.log]

\* The User collection at the start: the fields of a user that populate
\* selects and updateUser can change.
UserDoc(nombre, cargo) == [nombre |-> nombre, cargo |-> cargo]
DefaultUsers == [u \in Users |-> UserDoc("ANA", "QF")]

NoCache == [k \in {} |-> 0]

\* The collections outside the workflow at the start: the users, no
\* generated document, an empty cache.
InitOutside ==
  /\ users = DefaultUsers
  /\ documents = <<>>
  /\ cache = NoCache

(***************************************************************************)
(* Initial states: an empty order collection, or the one a sequential run  *)
(* leaves behind in which SeedActor created an order from SeedRequest and   *)
(* moved it through its first k - 1 transitions.                           *)
(***************************************************************************)
SeedActor == [user |-> 1, role |-> "COORDINADOR"]
SeedRequest == Request(<<MezclaData(1, 100)>>)
NoDocs == [o \in {} |-> 0]

\* The collections after createProduction returned made and logged it.
Created(made) ==
  [orders |-> made.docs,
   audit |-> <<AuditRecord(made.id, "CREATE", CreateCambios(made.docs[made.id]),
                           SeedActor.user, 0)>>]

\* The collections after one transitionToState of order 1 into newState.
Advanced(before, newState) ==
  [orders |-> [before.orders EXCEPT
                 ![1] = findByIdAndUpdate(@, newState, SeedActor.user, 0)],
   audit |-> Append(before.audit,
               AuditRecord(1, "STATE_TRANSITION",
                 TransitionCambios(before.orders[1].estado, newState, SeedActor.user),
                 SeedActor.user, 0))]

RECURSIVE Seed(_)
Seed(k) ==
  IF k = 0 THEN [orders |-> NoDocs, audit |-> <<>>]
  ELSE IF k = 1 THEN
    The({Created(made) :
           made \in {createProduction(DefaultCatalog, NoDocs, SeedRequest,
                                      SeedActor.user, 0, <<0>>, 0)}})
  ELSE The({Advanced(before, ProductionState[k]) : before \in {Seed(k - 1)}})

InitStore ==
  /\ catalog = DefaultCatalog
  /\ \E k \in 0..Len(ProductionState) : \E seed \in {Seed(k)} :
       /\ orders = seed.orders
       /\ audit = seed.audit
  /\ clock = 1
  /\ calls = [c \in Slots |-> Idle]
  /\ resp = NoResp
  /\ InitOutside

(***************************************************************************)
(* Actions.                                                                *)
(***************************************************************************)
Tick ==
  /\ clock < MaxClock
  /\ clock' = clock + 1
  /\ UNCHANGED <<catalog, orders, audit, calls, budget, resp>>
  /\ UNCHANGED <<users, documents, cache>>

\* A variant of Find in which the update of the order document is issued
\* before the role check, so that a call refused with 403 has already written.
Find_updateFirst(c, call) ==
  IF call.pid \notin DOMAIN orders
    THEN /\ resp' = Return(call, NotFound)
         /\ calls' = [calls EXCEPT ![c] = Idle]
         /\ UNCHANGED orders
  ELSE
    LET production == orders[call.pid]
        read == [call EXCEPT !.estadoLeido = production.estado, !.ahora = clock]
    IN IF validateTransition(production.estado, call.target) # OK
         THEN /\ resp' = Return(read, validateTransition(production.estado, call.target))
              /\ calls' = [calls EXCEPT ![c] = Idle]
              /\ UNCHANGED orders
       ELSE IF validateRolePermission(call.target, call.role) # OK
         THEN /\ resp' = Return(read, validateRolePermission(call.target, call.role))
              /\ calls' = [calls EXCEPT ![c] = Idle]
              /\ orders' = [orders EXCEPT ![call.pid] =
                              findByIdAndUpdate(@, call.target, call.user, clock)]
       ELSE /\ calls' = [calls EXCEPT ![c] = [read EXCEPT !.pc = "update"]]
            /\ UNCHANGED <<resp, orders>>

\* The first await of transitionToState and the synchronous code after it:
\* Production.findById, validateTransition, validateRolePermission and the
\* preparation of updateData with new Date().  Nothing is written.
Find(c, call) ==
  /\ UNCHANGED orders
  /\ IF call.pid \notin DOMAIN orders
       THEN /\ resp' = Return(call, NotFound)
            /\ calls' = [calls EXCEPT ![c] = Idle]
     ELSE
       LET production == orders[call.pid]
           read == [call EXCEPT !.estadoLeido = production.estado, !.ahora = clock]
       IN IF validateTransition(production.estado, call.target) # OK
            THEN /\ resp' = Return(read, validateTransition(production.estado, call.target))
                 /\ calls' = [calls EXCEPT ![c] = Idle]
          ELSE IF validateRolePermission(call.target, call.role) # OK
            THEN /\ resp' = Return(read, validateRolePermission(call.target, call.role))
                 /\ calls' = [calls EXCEPT ![c] = Idle]
          ELSE /\ calls' = [calls EXCEPT ![c] = [read EXCEPT !.pc = "update"]]
               /\ UNCHANGED resp

\* A call of transitionToState(productionId, newState, userId, userRole).
transitionToState(c, productionId, newState, userId, userRole) ==
  /\ calls[c].pc = "idle"
  /\ budget > 0
  /\ budget' = budget - 1
  /\ Find(c, [Idle EXCEPT !.kind = "transition", !.pid = productionId,
                          !.target = newState, !.user = userId,
                          !.role = userRole])
  /\ UNCHANGED <<catalog, audit, clock>>
  /\ UNCHANGED <<users, documents, cache>>

\* transitionToState called by validateAndCalculate (validateProduction,
\* calculateProduction): its findById is a read of its own.
FindNested(c) ==
  /\ calls[c].pc = "find"
  /\ Find(c, calls[c])
  /\ UNCHANGED <<catalog, audit, clock, budget>>
  /\ UNCHANGED <<users, documents, cache>>

\* A variant of Update whose write is not filtered by _id: it applies the
\* $set to every order document.
Update_all(c) ==
  /\ calls[c].pc = "update"
  /\ LET call == calls[c]
     IN IF call.pid \notin DOMAIN orders
          THEN /\ resp' = Return(call, ServerError)
               /\ calls' = [calls EXCEPT ![c] = Idle]
               /\ UNCHANGED orders
          ELSE /\ orders' = [o \in DOMAIN orders |->
                               findByIdAndUpdate(orders[o], call.target, call.user,
                                                 call.ahora)]
               /\ calls' = [calls EXCEPT ![c] =
                              [call EXCEPT !.pc = "audit",
                                           !.reemplazado = orders[call.pid].estado]]
               /\ UNCHANGED resp
  /\ UNCHANGED <<catalog, audit, clock, budget>>
  /\ UNCHANGED <<users, documents, cache>>

\* Production.findByIdAndUpdate of transitionToState.
Update(c) ==
  /\ calls[c].pc = "update"
  /\ LET call == calls[c]
     IN IF call.pid \notin DOMAIN orders
          THEN /\ resp' = Return(call, ServerError)
               /\ calls' = [calls EXCEPT ![c] = Idle]
               /\ UNCHANGED orders
          ELSE /\ orders' = [orders EXCEPT ![call.pid] =
                               findByIdAndUpdate(@, call.target, call.user, call.ahora)]
               /\ calls' = [calls EXCEPT ![c] =
                              [call EXCEPT !.pc = "audit",
                                           !.reemplazado = orders[call.pid].estado]]
               /\ UNCHANGED resp
  /\ UNCHANGED <<catalog, audit, clock, budget>>
  /\ UNCHANGED <<users, documents, cache>>

\* A variant of logActionThrows in which the catch block rethrows.
logActionThrows_rethrow(stored) == ~stored

\* The try/catch of logAction: whether an error of AuditLog.create reaches
\* the caller.  The catch block only writes to the console.
logActionThrows(stored) == FALSE

\* auditService.logAction: AuditLog.create stores the record or fails.  Then
\* the code that follows the call.
logAction(c, stored) ==
  /\ calls[c].pc = "audit"
  /\ LET call == calls[c]
         cambios == IF call.kind = "create"
                      THEN CreateCambios(orders[call.pid])
                      ELSE TransitionCambios(call.estadoLeido, call.target, call.user)
         accion == IF call.kind = "create" THEN "CREATE" ELSE "STATE_TRANSITION"
         done == [call EXCEPT !.log = IF stored THEN "stored" ELSE "failed"]
     IN /\ audit' = IF stored
                      THEN Append(audit, AuditRecord(call.pid, accion, cambios,
                                                     call.user, clock))
                      ELSE audit
        /\ IF logActionThrows(stored)
             THEN /\ resp' = Return(done, ServerError)
                  /\ calls' = [calls EXCEPT ![c] = Idle]
           ELSE IF call.kind \in {"transition", "advance"}
             THEN /\ resp' = Return(done, OK)
                  /\ calls' = [calls EXCEPT ![c] = Idle]
           ELSE IF call.kind = "vac" /\ call.stage = 1
             THEN /\ calls' = [calls EXCEPT ![c] =
                                 [done EXCEPT !.pc = "find", !.stage = 2,
                                              !.target = "CALCULADO"]]
                  /\ UNCHANGED resp
           ELSE /\ calls' = [calls EXCEPT ![c] = [done EXCEPT !.pc = "final"]]
                /\ UNCHANGED resp
  /\ UNCHANGED <<catalog, orders, clock, budget>>
  /\ UNCHANGED <<users, documents, cache>>

\* The last Production.findById(...).populate(...) of createProduction and of
\* validateAndCalculate.
FinalFind(c) ==
  /\ calls[c].pc = "final"
  /\ resp' = Return(calls[c], IF calls[c].pid \in DOMAIN orders THEN OK ELSE ServerError)
  /\ calls' = [calls EXCEPT ![c] = Idle]
  /\ UNCHANGED <<catalog, orders, audit, clock, budget>>
  /\ UNCHANGED <<users, documents, cache>>

\* ProductionController.advance: getProductionById and getNextState, up to
\* its call of transitionToState.
advance(c, productionId, userId, userRole) ==
  /\ calls[c].pc = "idle"
  /\ budget > 0
  /\ budget' = budget - 1
  /\ LET call == [Idle EXCEPT !.kind = "advance", !.pid = productionId,
                              !.user = userId, !.role = userRole]
     IN IF productionId \notin DOMAIN orders
          THEN /\ resp' = Return(call, NotFound)
               /\ UNCHANGED calls
        ELSE IF getNextState(orders[productionId].estado) = "NINGUNO"
          THEN /\ resp' = Return(call, BadRequest)
               /\ UNCHANGED calls
        ELSE /\ calls' = [calls EXCEPT ![c] =
                            [call EXCEPT !.pc = "find",
                               !.target = getNextState(orders[productionId].estado)]]
             /\ UNCHANGED resp
  /\ UNCHANGED <<catalog, orders, audit, clock>>
  /\ UNCHANGED <<users, documents, cache>>

\* A call of validateAndCalculate(productionId, userId, userRole): findById and
\* the validation of every mix, up to the first nested transitionToState.
validateAndCalculate(c, productionId, userId, userRole) ==
  /\ calls[c].pc = "idle"
  /\ budget > 0
  /\ budget' = budget - 1
  /\ LET call == [Idle EXCEPT !.kind = "vac", !.pid = productionId,
                              !.user = userId, !.role = userRole]
     IN IF productionId \notin DOMAIN orders
          THEN /\ resp' = Return(call, NotFound)
               /\ UNCHANGED calls
        ELSE
          LET production == orders[productionId]
          IN \E st \in {ValidateMezclas(catalog, production, 1)} :
             IF st # OK
               THEN /\ resp' = Return(call, st)
                    /\ UNCHANGED calls
             ELSE /\ calls' = [calls EXCEPT ![c] =
                      IF production.estado = "CREADO"
                        THEN [call EXCEPT !.pc = "find", !.stage = 1,
                                          !.target = "VALIDADO"]
                        ELSE [call EXCEPT !.pc = "find", !.stage = 2,
                                          !.target = "CALCULADO"]]
                  /\ UNCHANGED resp
  /\ UNCHANGED <<catalog, orders, audit, clock>>
  /\ UNCHANGED <<users, documents, cache>>

\* A call of createProduction(data, userId), up to Production.create.
CreateProduction(c, data, userId, randoms, codeRandom) ==
  /\ calls[c].pc = "idle"
  /\ budget > 0
  /\ budget' = budget - 1
  /\ \E made \in {createProduction(catalog, orders, data, userId, clock,
                                     randoms, codeRandom)} :
     LET call == [Idle EXCEPT !.kind = "create", !.pid = made.id, !.user = userId]
     IN IF made.status # OK
          THEN /\ resp' = Return(call, made.status)
               /\ UNCHANGED <<calls, orders>>
          ELSE /\ made.id \in OrderIds
               /\ orders' = made.docs
               /\ calls' = [calls EXCEPT ![c] = [call EXCEPT !.pc = "audit"]]
               /\ UNCHANGED resp
  /\ UNCHANGED <<catalog, audit, clock>>
  /\ UNCHANGED <<users, documents, cache>>

Steps ==
  \/ \E c \in Slots : Update(c)
  \/ \E c \in Slots, stored \in BOOLEAN : logAction(c, stored)

\* The workflow as the controllers drive it: advance, validateAndCalculate
\* and createProduction.
Init == InitStore /\ budget = MaxCalls

Next ==
  \/ Steps
  \/ \E c \in Slots : FindNested(c)
  \/ \E c \in Slots : FinalFind(c)
  \/ \E c \in Slots, o \in OrderIds, a \in Actors :
       advance(c, o, a.user, a.role)
  \/ \E c \in Slots, o \in OrderIds, a \in Actors :
       validateAndCalculate(c, o, a.user, a.role)
  \/ \E c \in Slots, d \in Requests, a \in Actors, cr \in Randoms :
       \E rs \in [1..Len(d.mezclas) -> Randoms] :
         CreateProduction(c, d, a.user, rs, cr)

Spec == Init /\ [][Next]_vars

\* transitionToState called directly with any target state and any role.
InitDirect == InitStore /\ budget = MaxDirectCalls

NextDirect ==
  \/ Tick
  \/ Steps
  \/ \E c \in Slots, o \in OrderIds, s \in StateNames, u \in Users, r \in UserRole :
       transitionToState(c, o, s, u, r)

SpecDirect == InitDirect /\ [][NextDirect]_vars

\* Two orders side by side.  The collections after a sequential run that
\* brought order 1 to its state j, created order 2 and brought it to state k.
AdvancedOrder(before, o, newState) ==
  [orders |-> [before.orders EXCEPT
                 ![o] = findByIdAndUpdate(@, newState, SeedActor.user, 0)],
   audit |-> Append(before.audit,
               AuditRecord(o, "STATE_TRANSITION",
                 TransitionCambios(before.orders[o].estado, newState, SeedActor.user),
                 SeedActor.user, 0))]

RECURSIVE SeedPair(_, _)
SeedPair(j, k) ==
  IF k = 1 THEN
    The({The({[orders |-> made.docs,
               audit |-> Append(first.audit,
                           AuditRecord(made.id, "CREATE",
                                       CreateCambios(made.docs[made.id]),
                                       SeedActor.user, 0))]
              : made \in {createProduction(DefaultCatalog, first.orders, SeedRequest,
                                           SeedActor.user, 0, <<0>>, 1)}})
         : first \in {Seed(j)}})
  ELSE The({AdvancedOrder(before, 2, ProductionState[k])
            : before \in {SeedPair(j, k - 1)}})

\* The callers of SpecPair, with the role of each.
PairActors == {[user |-> 1, role |-> "COORDINADOR"], [user |-> 2, role |-> "AUXILIAR"]}

InitPair ==
  /\ catalog = DefaultCatalog
  /\ \E j, k \in 1..Len(ProductionState) : \E seed \in {SeedPair(j, k)} :
       /\ orders = seed.orders
       /\ audit = seed.audit
  /\ clock = 1
  /\ calls = [c \in Slots |-> Idle]
  /\ resp = NoResp
  /\ budget = MaxPairCalls
  /\ InitOutside

\* transitionToState on either order, or on an id that no order has.
NextPair ==
  \/ Steps
  \/ \E c \in Slots, o \in 1..3, s \in StateNames, a \in PairActors :
       transitionToState(c, o, s, a.user, a.role)

SpecPair == InitPair /\ [][NextPair]_vars

(***************************************************************************)
(* Domain validation on its own: a catalog drawn from DomainCatalogs and    *)
(* calls of the validation service with every tuple of identifiers.         *)
(***************************************************************************)
StabilityRecord(medicamentoId, laboratorioId, vehiculoId, envaseId, horas) ==
  [medicamentoId |-> medicamentoId, laboratorioId |-> laboratorioId,
   vehiculoId |-> vehiculoId, envaseId |-> envaseId, horasEstabilidad |-> horas]

\* The Stability collections: none, the record of laboratory 1, the record of
\* laboratory 2 with other hours, or both with that of laboratory 2 first.
StabilityLists ==
  {<<>>,
   <<StabilityRecord(1, 1, 1, 1, 24)>>,
   <<StabilityRecord(1, 2, 1, 1, 48)>>,
   <<StabilityRecord(1, 2, 1, 1, 48), StabilityRecord(1, 1, 1, 1, 24)>>}

\* Medicine 1 enabled or not, laboratory 1 enabled or not, vehicle 1
\* compatible with both lines or with ONCO only, container 1.  Identifiers
\* above 1 exist only for laboratories.
DomainCatalogs ==
  {[medicines |-> (1 :> [DefaultCatalog.medicines[1] EXCEPT !.habilitado = mh]),
    labs |-> [l \in 1..MaxCatalogId |-> [habilitado |-> (l # 1 \/ lh)]],
    vehicles |-> (1 :> [compatibleConLinea |-> vl]),
    containers |-> {1},
    stabilities |-> st]
   : mh \in BOOLEAN, lh \in BOOLEAN,
     vl \in {{"ONCO"}, {"ONCO", "ESTERIL"}}, st \in StabilityLists}

DomainData ==
  [medicamentoId : 1..MaxCatalogId, laboratorioId : 1..MaxCatalogId,
   vehiculoId : 1..MaxCatalogId, envaseId : 1..MaxCatalogId,
   lineaProductiva : LineaProduccion]

InitDomain ==
  /\ catalog \in DomainCatalogs
  /\ orders = NoDocs
  /\ audit = <<>>
  /\ clock = 1
  /\ calls = [c \in Slots |-> Idle]
  /\ resp = NoResp
  /\ budget = 0
  /\ InitOutside

\* A call of validateCompleteDomain(data) and its outcome.
ValidateCompleteDomain(data) ==
  /\ \E out \in {validateCompleteDomain(catalog, data)} :
       resp' = [kind |-> "validateCompleteDomain", data |-> data,
                status |-> out.status, returned |-> out.returned,
                result |-> out.result, message |-> out.message]
  /\ UNCHANGED <<catalog, orders, audit, clock, calls, budget>>
  /\ UNCHANGED <<users, documents, cache>>

NextDomain ==
  \E data \in DomainData : ValidateCompleteDomain(data)

SpecDomain == InitDomain /\ [][NextDomain]_vars

(***************************************************************************)
(* Creation and validation of orders over several catalogs: the Stability  *)
(* collection varies, and so does the laboratory its first record names.   *)
(***************************************************************************)
MaxCatalogCalls == 2   \* service calls in a behaviour of SpecCatalog

\* The catalogs of DomainCatalogs whose medicine and vehicle pass their checks.
ProductionCatalogs ==
  {cat \in DomainCatalogs :
     /\ cat.medicines[1].habilitado
     /\ cat.vehicles[1].compatibleConLinea = LineaProduccion}

\* Requests of one mix and of two mixes with different doses.
CatalogRequests ==
  {Request(<<MezclaData(1, 100)>>),
   Request(<<MezclaData(1, 100), MezclaData(1, 50)>>),
   Request(<<MezclaData(1, 50), MezclaData(1, 23)>>)}

\* The tuples of medicine 1, vehicle 1 and container 1 with either laboratory.
CatalogData ==
  {data \in DomainData :
     /\ data.medicamentoId = 1 /\ data.vehiculoId = 1 /\ data.envaseId = 1
     /\ data.lineaProductiva = "ONCO"}

InitCatalog ==
  /\ catalog \in ProductionCatalogs
  /\ orders = NoDocs
  /\ audit = <<>>
  /\ clock = 1
  /\ calls = [c \in Slots |-> Idle]
  /\ resp = NoResp
  /\ budget = MaxCatalogCalls
  /\ InitOutside

NextCatalog ==
  \/ Steps
  \/ \E c \in Slots : FindNested(c)
  \/ \E c \in Slots : FinalFind(c)
  \/ \E data \in CatalogData : ValidateCompleteDomain(data)
  \/ \E c \in Slots, o \in OrderIds, a \in Actors :
       validateAndCalculate(c, o, a.user, a.role)
  \/ \E c \in Slots, d \in CatalogRequests, a \in Actors, cr \in Randoms :
       \E rs \in [1..Len(d.mezclas) -> Randoms] :
         CreateProduction(c, d, a.user, rs, cr)

SpecCatalog == InitCatalog /\ [][NextCatalog]_vars

(***************************************************************************)
(* The calculation engine on its own: one call of one of its functions     *)
(* with arguments drawn from the sets below, over several catalogs.        *)
(***************************************************************************)
MaxCalcCalls == 1   \* engine calls in a behaviour of SpecCalc

\* Doses, with 23 and 201 for quotients that end in half a hundredth.
CalcDoses == {-23, 0, 23, 50, 100, 201}

CalcUnits == {mg, <<"M", "G">>, <<"U", "I">>, <<"g">>}

\* "50mg/ml", "40mg/ml", "200mg/ml", "100UI/ml", "40 MG / ML", "2.5mg/ml",
\* "0mg/ml" and "mg/ml".
CalcConcentrations ==
  {<<"5", "0", "m", "g", "/", "m", "l">>,
   <<"4", "0", "m", "g", "/", "m", "l">>,
   <<"2", "0", "0", "m", "g", "/", "m", "l">>,
   <<"1", "0", "0", "U", "I", "/", "m", "l">>,
   <<"4", "0", " ", "M", "G", " ", "/", " ", "M", "L">>,
   <<"2", ".", "5", "m", "g", "/", "m", "l">>,
   <<"0", "m", "g", "/", "m", "l">>,
   <<"m", "g", "/", "m", "l">>}

\* Volumes to extract, in hundredths of a ml.
CalcVolumes == {0, 7, 57, 250, 275, 300}
CalcPresentationVolumes == {-1, 0, 1, 2, 5, 17}
CalcPresentationCounts == {0, 1, 85, 100}
CalcHours == {-1, 0, 24}

CalculationInputs ==
  [dosisPrescrita : {-23, 0, 23, 100},
   unidadDosis : {mg, <<"U", "I">>},
   concentracion : {<<"4", "0", "m", "g", "/", "m", "l">>, <<"m", "g", "/", "m", "l">>},
   volumenPresentacion : {0, 2},
   unidadesPresentacion : {1},
   horasEstabilidad : CalcHours]

\* Medicine 1 with no presentation or with two, medicine 2 absent, and the
\* Stability collections of StabilityLists.
CalcCatalogs ==
  {[medicines |->
      (1 :> [habilitado |-> TRUE,
             concentracion |-> <<"4", "0", "m", "g", "/", "m", "l">>,
             presentaciones |-> ps]),
    labs |-> [l \in 1..MaxCatalogId |-> [habilitado |-> TRUE]],
    vehicles |-> (1 :> [compatibleConLinea |-> LineaProduccion]),
    containers |-> {1},
    stabilities |-> st]
   : ps \in {<<>>, <<[volumen |-> 2, cantidad |-> 1], [volumen |-> 1, cantidad |-> 2]>>},
     st \in StabilityLists}

InitCalc ==
  /\ catalog \in CalcCatalogs
  /\ orders = NoDocs
  /\ audit = <<>>
  /\ clock = 1
  /\ calls = [c \in Slots |-> Idle]
  /\ resp = NoResp
  /\ budget = MaxCalcCalls
  /\ InitOutside

\* A call of calculateVolumenExtraer and its outcome.
CalculateVolumenExtraer(dosisPrescrita, unidadDosis, concentracion) ==
  /\ budget > 0
  /\ budget' = budget - 1
  /\ \E out \in {calculateVolumenExtraer(dosisPrescrita, unidadDosis, concentracion)} :
       resp' = [kind |-> "calculateVolumenExtraer", dosisPrescrita |-> dosisPrescrita,
                unidadDosis |-> unidadDosis, concentracion |-> concentracion,
                status |-> out.status, value |-> out.value, message |-> out.message]
  /\ UNCHANGED <<catalog, orders, audit, clock, calls>>
  /\ UNCHANGED <<users, documents, cache>>

\* A call of calculateUnidadesInsumo and its outcome.
CalculateUnidadesInsumo(volumenExtraer, volumenPresentacion, unidadesPresentacion) ==
  /\ budget > 0
  /\ budget' = budget - 1
  /\ \E out \in {calculateUnidadesInsumo(volumenExtraer, volumenPresentacion,
                                         unidadesPresentacion)} :
       resp' = [kind |-> "calculateUnidadesInsumo", volumenExtraer |-> volumenExtraer,
                volumenPresentacion |-> volumenPresentacion,
                unidadesPresentacion |-> unidadesPresentacion,
                status |-> out.status, value |-> out.value, message |-> out.message]
  /\ UNCHANGED <<catalog, orders, audit, clock, calls>>
  /\ UNCHANGED <<users, documents, cache>>

\* A call of calculateComplete and its outcome.
CalculateComplete(input, random) ==
  /\ budget > 0
  /\ budget' = budget - 1
  /\ \E out \in {calculateComplete(input, clock, random)} :
       resp' = [kind |-> "calculateComplete", input |-> input, ahora |-> clock,
                random |-> random, status |-> out.status, result |-> out]
  /\ UNCHANGED <<catalog, orders, audit, clock, calls>>
  /\ UNCHANGED <<users, documents, cache>>

\* A call of calculateFromDatabase and its outcome.
CalculateFromDatabase(medicamentoId, laboratorioId, vehiculoId, envaseId, dosisPrescrita, unidadDosis, random) ==
  /\ budget > 0
  /\ budget' = budget - 1
  /\ \E out \in {calculateFromDatabase(catalog, medicamentoId, laboratorioId,
                                       vehiculoId, envaseId, dosisPrescrita,
                                       unidadDosis, clock, random)} :
       resp' = [kind |-> "calculateFromDatabase", medicamentoId |-> medicamentoId,
                laboratorioId |-> laboratorioId, vehiculoId |-> vehiculoId,
                envaseId |-> envaseId, dosisPrescrita |-> dosisPrescrita,
                unidadDosis |-> unidadDosis, ahora |-> clock, random |-> random,
                status |-> out.status, result |-> out]
  /\ UNCHANGED <<catalog, orders, audit, clock, calls>>
  /\ UNCHANGED <<users, documents, cache>>

NextCalc ==
  \/ \E d \in CalcDoses, u \in CalcUnits, c \in CalcConcentrations :
       CalculateVolumenExtraer(d, u, c)
  \/ \E v \in CalcVolumes, pv \in CalcPresentationVolumes,
        n \in CalcPresentationCounts :
       CalculateUnidadesInsumo(v, pv, n)
  \/ \E input \in CalculationInputs, r \in Randoms : CalculateComplete(input, r)
  \/ \E m, l \in 1..MaxCatalogId, d \in {0, 23, 100}, r \in Randoms :
       CalculateFromDatabase(m, l, 1, 1, d, mg, r)

SpecCalc == InitCalc /\ [][NextCalc]_vars

(***************************************************************************)
(* The audit service on its own: logAction and getAuditHistory called for  *)
(* two entities while the clock advances or stands still.                  *)
(***************************************************************************)
MaxAuditRecords == 3   \* records in the AuditLog collection
DefaultLimit == 50

AuditEntities == 1..2

\* find(filter).sort({timestamp: -1}): the orders in which the records at the
\* positions found can come back; records of equal timestamp come in any order.
RECURSIVE sortByTimestamp(_, _)
sortByTimestamp(log, found) ==
  IF found = {} THEN {<<>>}
  ELSE LET first == {i \in found : \A j \in found : log[i].timestamp >= log[j].timestamp}
       IN UNION {{<<i>> \o q : q \in sortByTimestamp(log, found \ {i})} : i \in first}

\* .skip(skip).limit(limit) of a sorted list.
skipLimit(q, skip, limit) ==
  SubSeq(q, skip + 1, IF Len(q) < skip + limit THEN Len(q) ELSE skip + limit)

\* AuditLog.find({entidad, entidadId}).sort({timestamp: -1}).limit(limit): the
\* lists it can return, as sequences of positions in log, which stand for the
\* _id of the records.  The sort key is the timestamp alone, and the order of
\* records with equal keys is not determined.
getAuditHistory(log, entidad, entidadId, limit) ==
  {skipLimit(q, 0, limit) :
     q \in sortByTimestamp(log, {i \in 1..Len(log) :
                                  log[i].entidad = entidad /\ log[i].entidadId = entidadId})}

InitAudit ==
  /\ catalog = DefaultCatalog
  /\ orders = NoDocs
  /\ audit = <<>>
  /\ clock = 1
  /\ calls = [c \in Slots |-> Idle]
  /\ resp = NoResp
  /\ budget = 0
  /\ InitOutside

\* A call of logAction("Production", entidadId, accion, cambios, usuarioId):
\* AuditLog.create stores the record or fails.
LogAction(entidadId, accion, usuarioId, stored) ==
  /\ Len(audit) < MaxAuditRecords
  /\ audit' = IF stored
                THEN Append(audit, AuditRecord(entidadId, accion, <<>>, usuarioId, clock))
                ELSE audit
  /\ resp' = [kind |-> "logAction", entidadId |-> entidadId, stored |-> stored,
              thrown |-> logActionThrows(stored)]
  /\ UNCHANGED <<catalog, orders, clock, calls, budget>>
  /\ UNCHANGED <<users, documents, cache>>

\* A call of getAuditHistory("Production", entidadId) and the list it returns.
GetAuditHistory(entidadId) ==
  /\ \E list \in getAuditHistory(audit, "Production", entidadId, DefaultLimit) :
       resp' = [kind |-> "getAuditHistory", entidadId |-> entidadId, list |-> list]
  /\ UNCHANGED <<catalog, orders, audit, clock, calls, budget>>
  /\ UNCHANGED <<users, documents, cache>>

NextAudit ==
  \/ Tick
  \/ \E e \in AuditEntities, a \in {"CREATE", "STATE_TRANSITION"}, u \in Users,
        stored \in BOOLEAN :
       LogAction(e, a, u, stored)
  \/ \E e \in AuditEntities : GetAuditHistory(e)

SpecAudit == InitAudit /\ [][NextAudit]_vars

(***************************************************************************)
(* The workflow together with the queries of the audit service.            *)
(***************************************************************************)
MaxLogCalls == 1     \* service calls in SpecLog
QueryLimits == {1, DefaultLimit}
QuerySkips == {0, 1}

\* The entity names that logAction is called with, in the order of
\* Array.prototype.sort.
EntityNames == <<"Production">>

\* The User collection in the order of its nombre field.
UsersByNombre == [i \in 1..NumUsers |-> i]

getUserActions(log, usuarioId, limit) ==
  {skipLimit(q, 0, limit) :
     q \in sortByTimestamp(log, {i \in 1..Len(log) : log[i].usuarioId = usuarioId})}

getActionsByEntity(log, entidad, limit) ==
  {skipLimit(q, 0, limit) :
     q \in sortByTimestamp(log, {i \in 1..Len(log) : log[i].entidad = entidad})}

getAllAudits(log, limit, skip) ==
  {[audits |-> skipLimit(q, skip, limit), total |-> Len(log)] :
     q \in sortByTimestamp(log, 1..Len(log))}

\* AuditLog.distinct('entidad'), sorted.
getAvailableEntities(log) ==
  SelectSeq(EntityNames, LAMBDA name : \E i \in 1..Len(log) : log[i].entidad = name)

\* AuditLog.distinct('usuarioId'), then the users with those ids by nombre.
getAvailableUsers(log) ==
  SelectSeq(UsersByNombre, LAMBDA u : \E i \in 1..Len(log) : log[i].usuarioId = u)

\* A variant of GetAllAudits that deletes the records it returns.
GetAllAudits_consume(limit, skip) ==
  /\ \E r \in getAllAudits(audit, limit, skip) :
       /\ resp' = [kind |-> "getAllAudits", list |-> r.audits, total |-> r.total]
       /\ audit' = SelectSeq(audit, LAMBDA rec :
                      \A j \in 1..Len(r.audits) : audit[r.audits[j]] # rec)
  /\ UNCHANGED <<catalog, orders, clock, calls, budget>>
  /\ UNCHANGED <<users, documents, cache>>

GetUserActions(usuarioId, limit) ==
  /\ \E list \in getUserActions(audit, usuarioId, limit) :
       resp' = [kind |-> "getUserActions", usuarioId |-> usuarioId, list |-> list]
  /\ UNCHANGED <<catalog, orders, audit, clock, calls, budget>>
  /\ UNCHANGED <<users, documents, cache>>

GetActionsByEntity(entidad, limit) ==
  /\ \E list \in getActionsByEntity(audit, entidad, limit) :
       resp' = [kind |-> "getActionsByEntity", entidad |-> entidad, list |-> list]
  /\ UNCHANGED <<catalog, orders, audit, clock, calls, budget>>
  /\ UNCHANGED <<users, documents, cache>>

GetAllAudits(limit, skip) ==
  /\ \E r \in getAllAudits(audit, limit, skip) :
       resp' = [kind |-> "getAllAudits", list |-> r.audits, total |-> r.total]
  /\ UNCHANGED <<catalog, orders, audit, clock, calls, budget>>
  /\ UNCHANGED <<users, documents, cache>>

GetAvailableEntities ==
  /\ resp' = [kind |-> "getAvailableEntities", list |-> getAvailableEntities(audit)]
  /\ UNCHANGED <<catalog, orders, audit, clock, calls, budget>>
  /\ UNCHANGED <<users, documents, cache>>

GetAvailableUsers ==
  /\ resp' = [kind |-> "getAvailableUsers", list |-> getAvailableUsers(audit)]
  /\ UNCHANGED <<catalog, orders, audit, clock, calls, budget>>
  /\ UNCHANGED <<users, documents, cache>>

\* getAuditHistory of an order, with the limit the request gives.
GetOrderHistory(entidadId, limit) ==
  /\ \E list \in getAuditHistory(audit, "Production", entidadId, limit) :
       resp' = [kind |-> "getAuditHistory", entidadId |-> entidadId, list |-> list]
  /\ UNCHANGED <<catalog, orders, audit, clock, calls, budget>>
  /\ UNCHANGED <<users, documents, cache>>

\* The store is empty, or holds one order that was created, or created and
\* validated.
MaxLogSeed == 2

InitLog ==
  /\ catalog = DefaultCatalog
  /\ \E k \in 0..MaxLogSeed : \E seed \in {Seed(k)} :
       /\ orders = seed.orders
       /\ audit = seed.audit
  /\ clock = 1
  /\ calls = [c \in Slots |-> Idle]
  /\ resp = NoResp
  /\ budget = MaxLogCalls
  /\ InitOutside

NextLog ==
  \/ Steps
  \/ \E c \in Slots : FindNested(c)
  \/ \E c \in Slots : FinalFind(c)
  \/ \E c \in Slots, o \in OrderIds, a \in Actors :
       advance(c, o, a.user, a.role)
  \/ \E c \in Slots, o \in OrderIds, a \in Actors :
       validateAndCalculate(c, o, a.user, a.role)
  \/ \E c \in Slots, d \in Requests, a \in Actors, cr \in Randoms :
       \E rs \in [1..Len(d.mezclas) -> Randoms] :
         CreateProduction(c, d, a.user, rs, cr)
  \/ \E e \in OrderIds, limit \in QueryLimits : GetOrderHistory(e, limit)
  \/ \E u \in Users, limit \in QueryLimits : GetUserActions(u, limit)
  \/ \E limit \in QueryLimits : GetActionsByEntity("Production", limit)
  \/ \E limit \in QueryLimits, skip \in QuerySkips : GetAllAudits(limit, skip)
  \/ GetAvailableEntities
  \/ GetAvailableUsers

SpecLog == InitLog /\ [][NextLog]_vars

(***************************************************************************)
(* Express routing.  A path is the sequence of its segments, a route path  *)
(* a sequence of literal segments and named parameters.  A router tries    *)
(* its routes in the order of their registration, and the handlers of this *)
(* program never call next(): the first route that matches answers.        *)
(***************************************************************************)
HttpCreated == 201

Lit(s) == [lit |-> s]
Param(name) == [param |-> name]
Route(method, path, roles, handler) ==
  [method |-> method, path |-> path, roles |-> roles, handler |-> handler]

matchRoute(route, method, path) ==
  /\ route.method = method
  /\ Len(route.path) = Len(path)
  /\ \A i \in 1..Len(path) :
       "lit" \in DOMAIN route.path[i] => route.path[i].lit = path[i]

\* req.params of a request that route matched.
paramsOf(route, path) ==
  LET at == {i \in 1..Len(path) : "param" \in DOMAIN route.path[i]}
  IN [name \in {route.path[i].param : i \in at} |->
        path[CHOOSE i \in at : route.path[i].param = name]]

\* The position of the route that answers the request, 0 when none matches.
dispatch(routes, method, path) ==
  FirstIndex({i \in 1..Len(routes) : matchRoute(routes[i], method, path)})

\* The ids of the model as they are written in a path.
IdStrings == <<"1", "2">>

\* Types.ObjectId.isValid on a path segment: the id strings are valid, and
\* no other segment of the requests modelled here is (none has 12 characters
\* or is a 24 digit hexadecimal number).
isValid(segment) == includes(IdStrings, segment)

\* new Types.ObjectId(segment).
ObjectId(segment) == CHOOSE n \in 1..Len(IdStrings) : IdStrings[n] = segment

\* The characters of an id written in a path: the ids of the model are one
\* character long.
characters(segment) == <<segment>>

\* authorize(...allowedRoles).
authorize(allowedRoles, role) == IF role \in allowedRoles THEN OK ELSE Forbidden

(***************************************************************************)
(* The audit router and controller.                                        *)
(***************************************************************************)
AuditRoles == {"AUDITOR", "COORDINADOR"}

AuditRoutes ==
  <<Route("GET", <<Lit("filters"), Lit("entities")>>, AuditRoles, "getAvailableEntities"),
    Route("GET", <<Lit("filters"), Lit("users")>>, AuditRoles, "getAvailableUsers"),
    Route("GET", <<Lit("filters"), Lit("entities"), Param("entidad"), Lit("items")>>,
          AuditRoles, "getEntitiesOfType"),
    Route("GET", <<Param("entidad"), Param("entidadId")>>, AuditRoles, "getHistory"),
    Route("GET", <<Lit("user"), Param("userId")>>, AuditRoles, "getUserActions"),
    Route("GET", <<Lit("entity"), Param("entidad")>>, AuditRoles, "getActionsByEntity")>>

\* AuditLog.distinct('entidadId', {entidad}), then the orders with those ids
\* by createdAt, newest first; orders created at the same time in any order.
RECURSIVE sortByCreatedAt(_, _)
sortByCreatedAt(docs, found) ==
  IF found = {} THEN {<<>>}
  ELSE LET first == {i \in found : \A j \in found : docs[i].createdAt >= docs[j].createdAt}
       IN UNION {{<<i>> \o q : q \in sortByCreatedAt(docs, found \ {i})} : i \in first}

getEntitiesOfType(log, docs, entidad) ==
  IF entidad # "Production" THEN {<<>>}
  ELSE sortByCreatedAt(docs, {o \in DOMAIN docs :
                                \E i \in 1..Len(log) :
                                  log[i].entidad = entidad /\ log[i].entidadId = o})

AuditResponse(path, handler, status, data) ==
  [kind |-> "audit", path |-> path, handler |-> handler, status |-> status,
   data |-> data]

\* The handlers of AuditController: the responses that handler can give to
\* a request with the parameters params, without a limit in the query.
auditHandler(handler, path, params) ==
  CASE handler = "getHistory" ->
         IF ~isValid(params.entidadId)
           THEN {AuditResponse(path, handler, BadRequest, <<>>)}
           ELSE {AuditResponse(path, handler, OK, list) :
                   list \in getAuditHistory(audit, params.entidad,
                                            ObjectId(params.entidadId), DefaultLimit)}
    [] handler = "getUserActions" ->
         IF ~isValid(params.userId)
           THEN {AuditResponse(path, handler, BadRequest, <<>>)}
           ELSE {AuditResponse(path, handler, OK, list) :
                   list \in getUserActions(audit, ObjectId(params.userId), DefaultLimit)}
    [] handler = "getActionsByEntity" ->
         {AuditResponse(path, handler, OK, list) :
            list \in getActionsByEntity(audit, params.entidad, DefaultLimit)}
    [] handler = "getAvailableEntities" ->
         {AuditResponse(path, handler, OK, getAvailableEntities(audit))}
    [] handler = "getAvailableUsers" ->
         {AuditResponse(path, handler, OK, getAvailableUsers(audit))}
    [] handler = "getEntitiesOfType" ->
         {AuditResponse(path, handler, OK, list) :
            list \in getEntitiesOfType(audit, orders, params.entidad)}

\* A GET request to the audit router by an authenticated user with role.
AuditRequest(path, role) ==
  /\ \E r \in {dispatch(AuditRoutes, "GET", path)} :
       IF authorize(AuditRoles, role) # OK
         THEN resp' = AuditResponse(path, "authorize", Forbidden, <<>>)
       ELSE IF r = 0
         THEN resp' = AuditResponse(path, "none", NotFound, <<>>)
       ELSE \E answer \in auditHandler(AuditRoutes[r].handler, path,
                                       paramsOf(AuditRoutes[r], path)) :
              resp' = answer
  /\ UNCHANGED <<catalog, orders, audit, clock, calls, budget>>
  /\ UNCHANGED <<users, documents, cache>>

\* The roles of the users that make requests: one that the audit router
\* admits and one that it refuses.
RequestRoles == {"COORDINADOR", "AUXILIAR"}

\* The paths of the requests made to the audit router.
AuditPaths ==
  {<<"user", "1">>, <<"entity", "Production">>,
   <<"Production", "1">>, <<"filters", "entities">>,
   <<"filters", "users">>, <<"filters", "entities", "Production", "items">>,
   <<"all">>}

NextRoutes ==
  \/ Tick
  \/ \E e \in AuditEntities, a \in {"CREATE", "STATE_TRANSITION"}, u \in Users,
        stored \in BOOLEAN :
       LogAction(e, a, u, stored)
  \/ \E path \in AuditPaths, role \in RequestRoles : AuditRequest(path, role)

SpecRoutes == InitAudit /\ [][NextRoutes]_vars

(***************************************************************************)
(* CacheService.  Keys and patterns are strings, written as the sequences  *)
(* of their characters.                                                    *)
(***************************************************************************)
\* The characters of the keys, in the order of their code units.
CodeUnits ==
  <<"*", "-", "0", "1", "2", "3", "4", "5", "6", "7", "8", "9", ":",
    "a", "b", "c", "d", "e", "f", "g", "h", "i", "j", "k", "l", "m",
    "n", "o", "p", "q", "r", "s", "t", "u", "v", "w", "x", "y", "z", "|">>

codeUnit(ch) == CHOOSE i \in 1..Len(CodeUnits) : CodeUnits[i] = ch

\* a < b for strings, as Array.prototype.sort compares them.
RECURSIVE lessFrom(_, _, _)
lessFrom(a, b, i) ==
  IF i > Len(b) THEN FALSE
  ELSE IF i > Len(a) THEN TRUE
  ELSE IF a[i] # b[i] THEN codeUnit(a[i]) < codeUnit(b[i])
  ELSE lessFrom(a, b, i + 1)

\* Object.keys(params).sort().
RECURSIVE sortKeys(_)
sortKeys(names) ==
  IF names = {} THEN <<>>
  ELSE LET least == CHOOSE a \in names : \A b \in names : ~lessFrom(b, a, 1)
       IN <<least>> \o sortKeys(names \ {least})

\* keys.map(key => `${key}:${params[key]}`).join('|').
RECURSIVE joinParams(_, _)
joinParams(keys, params) ==
  IF keys = <<>> THEN <<>>
  ELSE Head(keys) \o <<":">> \o params[Head(keys)] \o
       (IF Len(keys) = 1 THEN <<>> ELSE <<"|">> \o joinParams(Tail(keys), params))

CachePrefix == <<"c", "a", "c", "h", "e", ":">>

generateKey(prefix, params) ==
  LET sortedParams == joinParams(sortKeys(DOMAIN params), params)
  IN IF sortedParams # <<>>
       THEN CachePrefix \o prefix \o <<":">> \o sortedParams
       ELSE CachePrefix \o prefix

\* The glob match of the KEYS command, for patterns whose only special
\* character is the asterisk.
RECURSIVE globFrom(_, _, _, _)
globFrom(pattern, i, key, j) ==
  IF i > Len(pattern) THEN j > Len(key)
  ELSE IF pattern[i] = "*"
    THEN \E k \in j..(Len(key) + 1) : globFrom(pattern, i + 1, key, k)
  ELSE /\ j <= Len(key)
       /\ pattern[i] = key[j]
       /\ globFrom(pattern, i + 1, key, j + 1)

\* client.keys(pattern).
keys(store, pattern) == {k \in DOMAIN store : globFrom(pattern, 1, k, 1)}

\* client.del(keys).
del(store, ks) == [k \in DOMAIN store \ ks |-> store[k]]

\* client.setEx(key, ttl, value), within the time to live.
setEx(store, key, value) ==
  [k \in DOMAIN store \cup {key} |-> IF k = key THEN value ELSE store[k]]

\* cacheService.get(key): the value, or None for a key that is not set.
get(store, key) == IF key \in DOMAIN store THEN store[key] ELSE None

ProductionsName == <<"p", "r", "o", "d", "u", "c", "t", "i", "o", "n", "s">>

\* The patterns of invalidateEntity(entity, entityId), in the order in which
\* it deletes them; entityId is <<>> when the caller gives none.
invalidatePatterns(entity, entityId) ==
  <<CachePrefix \o entity \o <<":", "*">>,
    CachePrefix \o entity \o <<"s", ":", "*">>,
    CachePrefix \o ProductionsName \o <<":", "*">>>> \o
  (IF entityId # <<>>
     THEN <<CachePrefix \o entity \o <<":">> \o entityId \o <<"*">>>>
     ELSE <<>>)

\* The cache after deletePattern ran for the patterns from position i on.
RECURSIVE deletePatterns(_, _, _)
deletePatterns(store, patterns, i) ==
  IF i > Len(patterns) THEN store
  ELSE deletePatterns(del(store, keys(store, patterns[i])), patterns, i + 1)

\* invalidateEntity run to its end with no other cache command in between.
invalidateEntity(store, entity, entityId) ==
  deletePatterns(store, invalidatePatterns(entity, entityId), 1)

(***************************************************************************)
(* Document generation: the document router, DocumentController and        *)
(* DocumentGenerationService.                                              *)
(***************************************************************************)
DocumentType == <<"SOLICITUD", "ORDEN", "INSUMOS", "QC", "ETIQUETAS", "ACTA">>

WriterRoles == {"AUXILIAR", "QUIMICO", "COORDINADOR"}

DocumentRoutes ==
  <<Route("GET", <<Param("productionId")>>, UserRole, "getByProduction"),
    Route("POST", <<Param("productionId"), Param("tipo")>>, WriterRoles, "generate"),
    Route("POST", <<Param("productionId"), Lit("generate-all")>>, WriterRoles,
          "generateAll")>>

\* A variant of generateGate that lets the order be generated from VALIDADO.
generateGate_validado(tipo, estado) ==
  CASE tipo = "SOLICITUD" -> OK
    [] tipo \in {"ORDEN", "INSUMOS"} ->
         IF estado = "CREADO" THEN BadRequest ELSE OK
    [] tipo = "QC" ->
         IF estado # "QC" /\ estado # "ETIQUETADO" /\ estado # "FINALIZADO"
           THEN BadRequest ELSE OK
    [] tipo = "ETIQUETAS" ->
         IF estado # "ETIQUETADO" /\ estado # "FINALIZADO" THEN BadRequest ELSE OK
    [] tipo = "ACTA" -> IF estado # "FINALIZADO" THEN BadRequest ELSE OK

\* The state check of generateSolicitud, generateOrden,
\* generateSolicitudInsumos, generateQC, generateEtiquetas and
\* generateActaEntrega.
generateGate(tipo, estado) ==
  CASE tipo = "SOLICITUD" -> OK
    [] tipo \in {"ORDEN", "INSUMOS"} ->
         IF estado = "CREADO" \/ estado = "VALIDADO" THEN BadRequest ELSE OK
    [] tipo = "QC" ->
         IF estado # "QC" /\ estado # "ETIQUETADO" /\ estado # "FINALIZADO"
           THEN BadRequest ELSE OK
    [] tipo = "ETIQUETAS" ->
         IF estado # "ETIQUETADO" /\ estado # "FINALIZADO" THEN BadRequest ELSE OK
    [] tipo = "ACTA" -> IF estado # "FINALIZADO" THEN BadRequest ELSE OK

\* The URL of an uploaded document, which its file name determines, and the
\* null of a document that was not generated.
NoUrl == <<>>

fileName(tipo, productionId) ==
  <<CASE tipo = "SOLICITUD" -> "solicitud"
      [] tipo = "ORDEN" -> "orden"
      [] tipo = "INSUMOS" -> "insumos"
      [] tipo = "QC" -> "qc"
      [] tipo = "ETIQUETAS" -> "etiquetas"
      [] tipo = "ACTA" -> "acta",
    IdStrings[productionId]>>

\* The document that Document.create stores.
DocumentRecord(productionId, tipo, userId, ahora) ==
  [productionId |-> productionId, tipo |-> tipo,
   fileUrl |-> fileName(tipo, productionId), generadoPor |-> userId,
   generadoEn |-> ahora]

\* The generators that generateAllAvailableDocuments calls for an order it
\* read in estado, in the order of the calls.
availableDocuments(estado) ==
  <<"SOLICITUD">> \o
  (IF estado # "CREADO" /\ estado # "VALIDADO" THEN <<"ORDEN", "INSUMOS">> ELSE <<>>) \o
  (IF estado \in {"QC", "ETIQUETADO", "FINALIZADO"} THEN <<"QC">> ELSE <<>>) \o
  (IF estado \in {"ETIQUETADO", "FINALIZADO"} THEN <<"ETIQUETAS">> ELSE <<>>) \o
  (IF estado = "FINALIZADO" THEN <<"ACTA">> ELSE <<>>)

NoDocuments == [t \in {DocumentType[i] : i \in 1..Len(DocumentType)} |-> NoUrl]

DocumentsName == <<"d", "o", "c", "u", "m", "e", "n", "t", "s">>

\* A request to the document router that is being handled: plan lists the
\* generators that generateAllAvailableDocuments has still to call after the
\* one for tipo, urls is its result so far, estadoLeido the estado that the
\* generator for tipo read.
DocumentCall(kind, path, productionId, tipo, userId, role) ==
  [pc |-> "idle", kind |-> kind, path |-> path, pid |-> productionId,
   tipo |-> tipo, user |-> userId, role |-> role, estadoLeido |-> "-",
   plan |-> <<>>, urls |-> NoDocuments]

DocumentResponse(call, handler, status, data) ==
  [kind |-> "documents", path |-> call.path, handler |-> handler, pid |-> call.pid,
   tipo |-> call.tipo, role |-> call.role, estadoLeido |-> call.estadoLeido,
   status |-> status, data |-> data]

\* res.json of a handler of the document router: the response is sent and,
\* after a 2xx status, invalidateCache('documents', productionId) runs.  A
\* call of the service that came through no route has no path and no
\* middleware, and resp holds what it returned.
DocumentAnswer(c, call, handler, status, data) ==
  /\ resp' = DocumentResponse(call, handler, status, data)
  /\ calls' = [calls EXCEPT ![c] = Idle]
  /\ cache' = IF status \in {OK, HttpCreated} /\ call.path # <<>>
                THEN invalidateEntity(cache, DocumentsName, characters(call.path[1]))
                ELSE cache

\* A generator of a generate request failed with status, or returned url.
\* In generateAllAvailableDocuments a failure is caught, the insumos request
\* shares the try block of the order, and the next generator is called.
DocumentDone(c, call, status, url) ==
  IF call.kind = "generate"
    THEN DocumentAnswer(c, call, "generate", status,
                        IF status = OK THEN [fileUrl |-> url, tipo |-> call.tipo]
                        ELSE None)
  ELSE LET urls == IF status = OK THEN [call.urls EXCEPT ![call.tipo] = url]
                   ELSE call.urls
           plan == IF status # OK /\ call.tipo = "ORDEN" THEN Tail(call.plan)
                   ELSE call.plan
       IN IF plan = <<>>
            THEN DocumentAnswer(c, [call EXCEPT !.urls = urls], "generateAll", OK, urls)
            ELSE /\ calls' = [calls EXCEPT ![c] =
                                [call EXCEPT !.pc = "gate", !.tipo = Head(plan),
                                             !.plan = Tail(plan), !.urls = urls]]
                 /\ UNCHANGED <<resp, cache>>

\* A POST request to the document router by an authenticated user: the
\* route, authorize, and the handler up to its first await.
PostDocument(c, path, userId, role) ==
  /\ calls[c].pc = "idle"
  /\ budget > 0
  /\ budget' = budget - 1
  /\ \E r \in {dispatch(DocumentRoutes, "POST", path)} :
     LET call == DocumentCall(IF r = 0 THEN "none" ELSE DocumentRoutes[r].handler,
                              path, 0, "-", userId, role)
     IN IF r = 0
          THEN DocumentAnswer(c, call, "none", NotFound, None)
        ELSE IF authorize(DocumentRoutes[r].roles, role) # OK
          THEN DocumentAnswer(c, call, "authorize", Forbidden, None)
        ELSE
          LET params == paramsOf(DocumentRoutes[r], path)
          IN IF ~isValid(params.productionId)
               THEN DocumentAnswer(c, call, call.kind, BadRequest, None)
             ELSE IF call.kind = "generate"
               THEN IF ~includes(DocumentType, params.tipo)
                      THEN DocumentAnswer(c, [call EXCEPT !.tipo = params.tipo],
                                          "generate", BadRequest, None)
                      ELSE /\ calls' = [calls EXCEPT ![c] =
                                 [call EXCEPT !.pc = "gate", !.tipo = params.tipo,
                                              !.pid = ObjectId(params.productionId)]]
                           /\ UNCHANGED <<resp, cache>>
             ELSE /\ calls' = [calls EXCEPT ![c] =
                                 [call EXCEPT !.pc = "all",
                                              !.pid = ObjectId(params.productionId)]]
                  /\ UNCHANGED <<resp, cache>>
  /\ UNCHANGED <<catalog, orders, audit, clock, users, documents>>

\* A call of documentGenerationService.generateAllAvailableDocuments.
generateAllAvailableDocuments(c, productionId, userId) ==
  /\ calls[c].pc = "idle"
  /\ budget > 0
  /\ budget' = budget - 1
  /\ calls' = [calls EXCEPT ![c] =
                 [DocumentCall("generateAll", <<>>, productionId, "-", userId, "-")
                    EXCEPT !.pc = "all"]]
  /\ UNCHANGED <<catalog, orders, audit, clock, resp, users, documents, cache>>

\* Production.findById of generateAllAvailableDocuments.
GenerateAllFind(c) ==
  /\ calls[c].pc = "all"
  /\ LET call == calls[c]
     IN IF call.pid \notin DOMAIN orders
          THEN DocumentAnswer(c, call, "generateAll", NotFound, None)
          ELSE LET plan == availableDocuments(orders[call.pid].estado)
               IN /\ calls' = [calls EXCEPT ![c] =
                                 [call EXCEPT !.pc = "gate", !.tipo = Head(plan),
                                              !.plan = Tail(plan)]]
                  /\ UNCHANGED <<resp, cache>>
  /\ UNCHANGED <<catalog, orders, audit, clock, budget, users, documents>>

\* Production.findById of a generator and its check of the estado.
GenerateFind(c) ==
  /\ calls[c].pc = "gate"
  /\ LET call == calls[c]
     IN IF call.pid \notin DOMAIN orders
          THEN DocumentDone(c, call, NotFound, NoUrl)
        ELSE LET read == [call EXCEPT !.estadoLeido = orders[call.pid].estado]
             IN IF generateGate(call.tipo, read.estadoLeido) # OK
                  THEN DocumentDone(c, read, generateGate(call.tipo, read.estadoLeido),
                                    NoUrl)
                  ELSE /\ calls' = [calls EXCEPT ![c] = [read EXCEPT !.pc = "store"]]
                       /\ UNCHANGED <<resp, cache>>
  /\ UNCHANGED <<catalog, orders, audit, clock, budget, users, documents>>

\* The rest of a generator: the PDF, its upload and Document.create, which
\* succeed together or leave no document.
GenerateStore(c, uploaded) ==
  /\ calls[c].pc = "store"
  /\ LET call == calls[c]
     IN IF uploaded
          THEN /\ documents' = Append(documents,
                                 DocumentRecord(call.pid, call.tipo, call.user, clock))
               /\ DocumentDone(c, call, OK, fileName(call.tipo, call.pid))
          ELSE /\ UNCHANGED documents
               /\ DocumentDone(c, call, ServerError, NoUrl)
  /\ UNCHANGED <<catalog, orders, audit, clock, budget, users>>

(***************************************************************************)
(* getProductionById and updateUser.                                       *)
(***************************************************************************)
\* populate of the stage actors: each id is replaced by the fields selected
\* from the user with that id, or by None when there is no such user.
populate(doc, usrs) ==
  [doc EXCEPT !.por = [f \in DOMAIN doc.por |->
                         IF doc.por[f] = None THEN None
                         ELSE IF doc.por[f] \in DOMAIN usrs
                           THEN [id |-> doc.por[f], nombre |-> usrs[doc.por[f]].nombre,
                                 cargo |-> usrs[doc.por[f]].cargo]
                         ELSE None]]

getProductionById(docs, usrs, productionId) ==
  IF productionId \in DOMAIN docs THEN populate(docs[productionId], usrs) ELSE None

\* ProductionController.getById.
GetById(productionId) ==
  /\ \E production \in {getProductionById(orders, users, productionId)} :
       resp' = [kind |-> "getById", pid |-> productionId,
                status |-> IF productionId \in DOMAIN orders THEN OK ELSE NotFound,
                data |-> production]
  /\ UNCHANGED <<catalog, orders, audit, clock, calls, budget>>
  /\ UNCHANGED <<users, documents, cache>>

\* userService.updateUser(userId, {nombre, cargo}).
UpdateUser(userId, nombre, cargo) ==
  /\ budget > 0
  /\ budget' = budget - 1
  /\ IF userId \notin DOMAIN users
       THEN /\ resp' = [kind |-> "updateUser", user |-> userId, status |-> NotFound]
            /\ UNCHANGED users
       ELSE /\ users' = [users EXCEPT ![userId] = UserDoc(nombre, cargo)]
            /\ resp' = [kind |-> "updateUser", user |-> userId, status |-> OK]
  /\ UNCHANGED <<catalog, orders, audit, clock, calls, documents, cache>>

(***************************************************************************)
(* The services side by side: transitions, document requests, reads of an  *)
(* order and updates of a user.                                            *)
(***************************************************************************)
MaxServiceCalls == 2

UserNames == {"ANA", "LUZ"}

DocumentPaths ==
  {<<"1", "SOLICITUD">>, <<"1", "ORDEN">>, <<"1", "INSUMOS">>, <<"1", "QC">>,
   <<"1", "ETIQUETAS">>, <<"1", "ACTA">>, <<"1", "generate-all">>,
   <<"2", "ORDEN">>, <<"x", "ORDEN">>, <<"1">>}

InitService == InitStore /\ budget = MaxServiceCalls

NextService ==
  \/ Steps
  \/ \E c \in Slots, o \in OrderIds, a \in Actors :
       transitionToState(c, o, getNextState(IF o \in DOMAIN orders
                                              THEN orders[o].estado
                                              ELSE "CREADO"), a.user, a.role)
  \/ \E c \in Slots, path \in DocumentPaths, a \in Actors :
       PostDocument(c, path, a.user, a.role)
  \/ \E c \in Slots : GenerateFind(c)
  \/ \E c \in Slots, uploaded \in BOOLEAN : GenerateStore(c, uploaded)
  \/ \E o \in OrderIds : GetById(o)
  \/ \E u \in Users, nombre \in UserNames : UpdateUser(u, nombre, "QF")

SpecService == InitService /\ [][NextService]_vars

(***************************************************************************)
(* The generators of documents, called one by one through the router or    *)
(* all together through the service, while the order advances.             *)
(***************************************************************************)
MaxDocumentCalls == 2

GeneratePaths ==
  {<<"1", "ORDEN">>, <<"1", "QC">>, <<"1", "ETIQUETAS">>, <<"1", "ACTA">>}

InitDocuments == InitStore /\ budget = MaxDocumentCalls

NextDocuments ==
  \/ Steps
  \/ \E c \in Slots, o \in OrderIds, a \in Actors :
       transitionToState(c, o, getNextState(IF o \in DOMAIN orders
                                              THEN orders[o].estado
                                              ELSE "CREADO"), a.user, a.role)
  \/ \E c \in Slots, path \in GeneratePaths :
       PostDocument(c, path, Actors1.user, Actors1.role)
  \/ \E c \in Slots, o \in OrderIds :
       generateAllAvailableDocuments(c, o, Actors1.user)
  \/ \E c \in Slots : GenerateAllFind(c)
  \/ \E c \in Slots : GenerateFind(c)
  \/ \E c \in Slots, uploaded \in BOOLEAN : GenerateStore(c, uploaded)

SpecDocuments == InitDocuments /\ [][NextDocuments]_vars

(***************************************************************************)
(* The cached routes: GET /productions/:id and POST                        *)
(* /productions/:id/transition of the production router, GET /medicines    *)
(* and POST /medicines of the catalog router, behind cacheMiddleware and   *)
(* invalidateCache.                                                        *)
(***************************************************************************)
ProductionName == <<"p", "r", "o", "d", "u", "c", "t", "i", "o", "n">>

MedicinesName == <<"m", "e", "d", "i", "c", "i", "n", "e", "s">>

CoordinatorRole == {"COORDINADOR"}

\* req.query of a GET /medicines request: none, or habilitado=true.
NoQuery == [k \in {} |-> <<>>]

HabilitadoName == <<"h", "a", "b", "i", "l", "i", "t", "a", "d", "o">>

MedicineQueries == {NoQuery, [k \in {HabilitadoName} |-> <<"t", "r", "u", "e">>]}

\* The body of a new medicine.
NewMedicine ==
  [habilitado |-> TRUE, concentracion |-> <<"1", "0", "m", "g", "/", "m", "l">>,
   presentaciones |-> <<[volumen |-> 1, cantidad |-> 1]>>]

\* Medicine.find(query) of getMedicines: the ids of the medicines found.
findMedicines(cat, query) ==
  {m \in DOMAIN cat.medicines :
     HabilitadoName \in DOMAIN query =>
       cat.medicines[m].habilitado = (query[HabilitadoName] = <<"t", "r", "u", "e">>)}

\* Medicine.create: the collection with the new document.
createMedicine(cat, body) ==
  [cat EXCEPT !.medicines =
     [m \in DOMAIN @ \cup {Cardinality(DOMAIN @) + 1} |->
        IF m \in DOMAIN @ THEN @[m] ELSE body]]

\* A request to a cached route that is being handled, or whose cache
\* command is still to run after its response was sent.  req numbers the
\* request, key is the cache key of a GET, body the response body that is
\* to be cached, patterns the patterns that invalidateEntity has still to
\* delete.
CacheCall(kind, req, pid, key, query) ==
  [pc |-> "idle", kind |-> kind, req |-> req, pid |-> pid, key |-> key,
   query |-> query, body |-> <<>>, patterns |-> <<>>]

CacheResponse(call, status, body, cached) ==
  [kind |-> call.kind, req |-> call.req, pid |-> call.pid, status |-> status,
   body |-> body, cached |-> cached]

\* cacheMiddleware up to its answer from the cache or its call of next():
\* the key, and cacheService.get.
cacheMiddleware(c, call, next) ==
  IF call.key \in DOMAIN cache
    THEN /\ resp' = CacheResponse(call, OK, get(cache, call.key), TRUE)
         /\ UNCHANGED calls
    ELSE /\ calls' = [calls EXCEPT ![c] = [call EXCEPT !.pc = next]]
         /\ UNCHANGED resp

\* GET /productions/:id.
GetProduction(c, id) ==
  /\ calls[c].pc = "idle"
  /\ budget > 0
  /\ budget' = budget - 1
  /\ cacheMiddleware(c,
       CacheCall("getById", budget, ObjectId(id),
                 generateKey(ProductionName, [k \in {<<"i", "d">>} |-> characters(id)]),
                 NoQuery),
       "getById")
  /\ UNCHANGED <<catalog, orders, audit, clock, users, documents, cache>>

\* ProductionController.getById behind cacheMiddleware: the read of the order
\* and res.json, which sends the response and, after a 2xx status, leaves
\* cacheService.set to run.
GetByIdRead(c) ==
  /\ calls[c].pc = "getById"
  /\ LET call == calls[c]
     IN IF call.pid \notin DOMAIN orders
          THEN /\ resp' = CacheResponse(call, NotFound, <<>>, FALSE)
               /\ calls' = [calls EXCEPT ![c] = Idle]
          ELSE \E production \in {getProductionById(orders, users, call.pid)} :
                 /\ resp' = CacheResponse(call, OK, production, FALSE)
                 /\ calls' = [calls EXCEPT ![c] =
                                [call EXCEPT !.pc = "set", !.body = production]]
  /\ UNCHANGED <<catalog, orders, audit, clock, budget, users, documents, cache>>

\* GET /medicines.
GetMedicines(c, query) ==
  /\ calls[c].pc = "idle"
  /\ budget > 0
  /\ budget' = budget - 1
  /\ cacheMiddleware(c,
       CacheCall("getMedicines", budget, 0, generateKey(MedicinesName, query), query),
       "getMedicines")
  /\ UNCHANGED <<catalog, orders, audit, clock, users, documents, cache>>

\* CatalogController.getMedicines behind cacheMiddleware.
GetMedicinesRead(c) ==
  /\ calls[c].pc = "getMedicines"
  /\ LET call == calls[c]
         medicines == findMedicines(catalog, call.query)
     IN /\ resp' = CacheResponse(call, OK, medicines, FALSE)
        /\ calls' = [calls EXCEPT ![c] = [call EXCEPT !.pc = "set", !.body = medicines]]
  /\ UNCHANGED <<catalog, orders, audit, clock, budget, users, documents, cache>>

\* cacheService.set that the res.json of cacheMiddleware started.
CacheSet(c) ==
  /\ calls[c].pc = "set"
  /\ cache' = setEx(cache, calls[c].key, calls[c].body)
  /\ calls' = [calls EXCEPT ![c] = Idle]
  /\ UNCHANGED <<catalog, orders, audit, clock, budget, resp, users, documents>>

\* The time to live of a cache entry ends.
Expire(key) ==
  /\ key \in DOMAIN cache
  /\ cache' = del(cache, {key})
  /\ UNCHANGED <<catalog, orders, audit, clock, calls, budget, resp, users, documents>>

\* POST /medicines: authorize, Medicine.create, and res.json, which sends
\* the response and leaves invalidateEntity('medicines') to run.
PostMedicine(c, role) ==
  /\ calls[c].pc = "idle"
  /\ budget > 0
  /\ budget' = budget - 1
  /\ LET call == CacheCall("createMedicine", budget, 0, <<>>, NoQuery)
     IN IF authorize(CoordinatorRole, role) # OK
          THEN /\ resp' = CacheResponse(call, Forbidden, <<>>, FALSE)
               /\ UNCHANGED <<calls, catalog>>
          ELSE /\ catalog' = createMedicine(catalog, NewMedicine)
               /\ resp' = CacheResponse(call, HttpCreated,
                                        Cardinality(DOMAIN catalog.medicines) + 1, FALSE)
               /\ calls' = [calls EXCEPT ![c] =
                              [call EXCEPT !.pc = "invalidate",
                                 !.patterns = invalidatePatterns(MedicinesName, <<>>)]]
  /\ UNCHANGED <<orders, audit, clock, users, documents, cache>>

\* POST /productions/:id/transition: authorize, and
\* ProductionController.transition up to the first await of
\* transitionToState.
PostTransition(c, id, estado, userId, role) ==
  /\ calls[c].pc = "idle"
  /\ budget > 0
  /\ budget' = budget - 1
  /\ LET call == [Idle EXCEPT !.kind = "transitionRoute", !.pid = ObjectId(id),
                              !.target = estado, !.user = userId, !.role = role]
     IN IF authorize(WriterRoles, role) # OK
          THEN /\ resp' = Return(call, Forbidden)
               /\ UNCHANGED <<calls, orders>>
          ELSE Find(c, call)
  /\ UNCHANGED <<catalog, audit, clock, users, documents, cache>>

\* ProductionController.transition after transitionToState returned:
\* res.json, which sends the response and leaves
\* invalidateEntity('production', id) to run.
TransitionSend(c) ==
  /\ calls[c].pc = "final"
  /\ calls[c].kind = "transitionRoute"
  /\ resp' = Return(calls[c], OK)
  /\ calls' = [calls EXCEPT ![c] =
                 [CacheCall("transitionRoute", 0, calls[c].pid, <<>>, NoQuery)
                    EXCEPT !.pc = "invalidate",
                           !.patterns = invalidatePatterns(ProductionName,
                                          characters(IdStrings[calls[c].pid]))]]
  /\ UNCHANGED <<catalog, orders, audit, clock, budget, users, documents, cache>>

\* deletePattern of invalidateEntity for the next of its patterns.
Invalidate(c) ==
  /\ calls[c].pc = "invalidate"
  /\ cache' = del(cache, keys(cache, Head(calls[c].patterns)))
  /\ calls' = [calls EXCEPT ![c] =
                 IF Len(calls[c].patterns) = 1 THEN Idle
                 ELSE [calls[c] EXCEPT !.patterns = Tail(@)]]
  /\ UNCHANGED <<catalog, orders, audit, clock, budget, resp, users, documents>>

MaxCacheCalls == 3

InitCache == InitStore /\ budget = MaxCacheCalls

NextCache ==
  \/ Steps
  \/ \E c \in Slots : GetProduction(c, IdStrings[1])
  \/ \E c \in Slots : GetByIdRead(c)
  \/ \E c \in Slots, query \in MedicineQueries : GetMedicines(c, query)
  \/ \E c \in Slots : GetMedicinesRead(c)
  \/ \E c \in Slots : CacheSet(c)
  \/ \E key \in DOMAIN cache : Expire(key)
  \/ \E c \in Slots : PostMedicine(c, Actors1.role)
  \/ \E c \in Slots :
       PostTransition(c, IdStrings[1],
                      getNextState(IF 1 \in DOMAIN orders THEN orders[1].estado
                                   ELSE "CREADO"),
                      Actors1.user, Actors1.role)
  \/ \E c \in Slots : TransitionSend(c)
  \/ \E c \in Slots : Invalidate(c)

SpecCache == InitCache /\ [][NextCache]_vars

(***************************************************************************)
(* validateAndCalculate on its own: one call, on an order that was created *)
(* from SeedRequest and moved through some of its transitions, over a      *)
(* catalog that may have been changed in the database since.               *)
(***************************************************************************)
InitValidate ==
  /\ catalog \in DomainCatalogs
  /\ \E k \in 1..Len(ProductionState) : \E seed \in {Seed(k)} :
       /\ orders = seed.orders
       /\ audit = seed.audit
  /\ clock = 1
  /\ calls = [c \in Slots |-> Idle]
  /\ resp = NoResp
  /\ budget = 1
  /\ InitOutside

NextValidate ==
  \/ Steps
  \/ \E c \in Slots : FindNested(c)
  \/ \E c \in Slots : FinalFind(c)
  \/ \E c \in Slots, o \in OrderIds, a \in Actors :
       validateAndCalculate(c, o, a.user, a.role)

SpecValidate == InitValidate /\ [][NextValidate]_vars

(***************************************************************************)
(* Properties.                                                             *)
(***************************************************************************)
\* T is the single successor of S in the canonical order.
IsSuccessor(S, T) == Pos(T) = Pos(S) + 1

\* The call in slot c has performed its update of the order.
Updated(c) == calls[c].pc = "audit"

\* C1: of two concurrent transitionToState calls on one order that read the
\* same current state and target its successor with a permitted role, exactly
\* one succeeds: the order is never updated twice from the same state read.
\* Stated for two calls that are both past their update, and for one that
\* returned successfully while the other is past its update.
C1_ExactlyOneWins ==
  /\ \A c1, c2 \in Slots :
       ~ /\ c1 # c2
         /\ Updated(c1) /\ Updated(c2)
         /\ calls[c1].pid = calls[c2].pid
         /\ calls[c1].estadoLeido = calls[c2].estadoLeido
  /\ \A c \in Slots :
       ~ /\ Updated(c)
         /\ resp.kind = "transition" /\ resp.status = OK
         /\ resp.pid = calls[c].pid
         /\ resp.estadoLeido = calls[c].estadoLeido

\* C3: a transitionToState call on an existing order whose target is not the
\* single successor of the order's state (the same state, a skip, a backward
\* move, anything from FINALIZADO) fails with status 400, whatever the role.
C3_IllegalTransition ==
  (/\ resp.kind = "transition"
   /\ resp.status # NotFound
   /\ ~IsSuccessor(resp.estadoLeido, resp.target))
  => resp.status = BadRequest

\* C3 witness: a backward move asked by a COORDINADOR was refused with 400.
C3_Witness ==
  /\ resp.kind = "transition"
  /\ resp.status = BadRequest
  /\ resp.role = "COORDINADOR"
  /\ resp.estadoLeido = "QC" /\ resp.target = "CALCULADO"

\* The role sets of C4, by target state.
C4_Permitted(T) ==
  CASE T \in {"VALIDADO", "CALCULADO", "PRODUCIDO", "QC"} -> {"QUIMICO", "COORDINADOR"}
    [] T \in {"PROGRAMADO", "FINALIZADO"} -> {"COORDINADOR"}
    [] T = "ETIQUETADO" -> {"AUXILIAR", "QUIMICO", "COORDINADOR"}
    [] OTHER -> {}

\* C4: a legal transitionToState call fails with status 403 exactly when the
\* caller's role is outside the target state's permitted set; it otherwise
\* goes on to its update, and no call of an AUDITOR ever gets to update.
C4_RoleGate ==
  /\ (/\ resp.kind = "transition"
      /\ resp.status # NotFound
      /\ IsSuccessor(resp.estadoLeido, resp.target))
     => /\ resp.status = Forbidden <=> resp.role \notin C4_Permitted(resp.target)
        /\ resp.status \in {Forbidden, OK}
  /\ \A c \in Slots :
       calls[c].pc # "idle" =>
         /\ calls[c].role \in C4_Permitted(calls[c].target)
         /\ calls[c].role # "AUDITOR"
  /\ resp.status = OK => resp.role # "AUDITOR"

\* C4 witness: a QUIMICO was refused the legal transition into PROGRAMADO.
C4_Witness ==
  /\ resp.kind = "transition"
  /\ resp.status = Forbidden
  /\ resp.role = "QUIMICO"
  /\ resp.estadoLeido = "CALCULADO" /\ resp.target = "PROGRAMADO"

\* C2: the stored estado of an order never moves to an earlier state of the
\* canonical order and never advances by more than one position in one
\* update, under any interleaving of transitionToState calls (through
\* advance) and validateAndCalculate calls.
C2_Monotone ==
  [][\A o \in DOMAIN orders :
       o \in DOMAIN orders' =>
         \/ Pos(orders'[o].estado) = Pos(orders[o].estado)
         \/ Pos(orders'[o].estado) = Pos(orders[o].estado) + 1]_vars

\* The stage of state s is recorded in the document doc.
StageSet(doc, s) ==
  /\ doc.timestamps[lowerName(s)] # None
  /\ doc.por[lowerName(s)] # None

StageUnset(doc, s) ==
  /\ doc.timestamps[lowerName(s)] = None
  /\ doc.por[lowerName(s)] = None

\* C5: in every reachable state of every order the stage actor and the stage
\* timestamp are set for the order's state and for every state before it, and
\* unset for every state after it.
C5_StagesFollowState ==
  \A o \in DOMAIN orders : \A s \in StateNames :
    IF Pos(s) <= Pos(orders[o].estado)
      THEN StageSet(orders[o], s)
      ELSE StageUnset(orders[o], s)

\* The call in slot c stores its audit record in this step.
Logs(c) ==
  /\ calls[c].pc = "audit"
  /\ calls'[c] # calls[c]
  /\ Len(audit') = Len(audit) + 1

\* C6: the one STATE_TRANSITION record a successful transitionToState call
\* appends after its update names as estadoAnterior the state the order held
\* immediately before that update, as estadoNuevo the target, and the user.
C6_AuditNamesPriorState ==
  [][\A c \in Slots :
       (Logs(c) /\ calls[c].kind = "transition") =>
         /\ audit' = Append(audit, audit'[Len(audit')])
         /\ audit'[Len(audit')].accion = "STATE_TRANSITION"
         /\ audit'[Len(audit')].entidadId = calls[c].pid
         /\ audit'[Len(audit')].cambios =
              TransitionCambios(calls[c].reemplazado, calls[c].target,
                                calls[c].user)]_vars

\* The audit insert of the call in slot c fails in this step.
LogFails(c) ==
  /\ calls[c].pc = "audit"
  /\ calls'[c] # calls[c]
  /\ audit' = audit

\* C7: a failed audit insert never reaches the caller.  The step in which the
\* insert fails leaves the order collection as it is; a transitionToState
\* call returns 200 in that step and a createProduction call goes on to its
\* final read; and every transition or creation that returned after a failed
\* insert returned 200 with its state change or its document persisted.
C7_AuditFailureSwallowed ==
  [][/\ \A c \in Slots :
          LogFails(c) =>
            /\ orders' = orders
            /\ calls[c].kind \in {"transition", "advance"} =>
                 /\ resp'.status = OK /\ resp'.log = "failed"
                 /\ resp'.pid = calls[c].pid /\ resp'.target = calls[c].target
            /\ calls[c].kind = "create" => calls'[c].pc = "final"
            /\ calls[c].kind = "vac" => calls'[c].pc \in {"find", "final"}
     /\ (resp'.log = "failed" /\ resp'.kind \in {"transition", "advance", "create"})
          => /\ resp'.status = OK
             /\ resp'.pid \in DOMAIN orders']_vars

\* C7 witness: an advance whose audit insert failed returned 200, the order
\* is in the target state and the audit log holds no record of the step.
C7_Witness ==
  /\ resp.kind = "advance" /\ resp.log = "failed" /\ resp.status = OK
  /\ resp.pid \in DOMAIN orders
  /\ orders[resp.pid].estado = resp.target
  /\ \A i \in 1..Len(audit) :
       audit[i].accion = "STATE_TRANSITION" =>
         audit[i].cambios.estadoNuevo # resp.target

\* C8: FINALIZADO is absorbing: getNextState gives no state for it, and an
\* order whose stored state is FINALIZADO is FINALIZADO in every later state,
\* whatever calls complete afterwards.
C8_FinalAbsorbing ==
  [][/\ getNextState("FINALIZADO") = "NINGUNO"
     /\ \A o \in DOMAIN orders :
          orders[o].estado = "FINALIZADO" =>
            (o \in DOMAIN orders' /\ orders'[o].estado = "FINALIZADO")]_vars

\* A transitionToState call returns in this step with a client error.
Fails ==
  /\ resp'.kind = "transition"
  /\ resp'.status \in {NotFound, BadRequest, Forbidden}
  /\ budget' < budget
  /\ calls' = calls

\* C9: a transitionToState call that fails with 404, 400 or 403 leaves the
\* orders (state, stage actors, stage timestamps) unchanged and appends no
\* audit record.
C9_FailureChangesNothing ==
  [][Fails => (orders' = orders /\ audit' = audit)]_vars

\* C9 witness: a call on an existing order was refused with 403 while the
\* order was in a state after CREADO.
C9_Witness ==
  /\ resp.kind = "transition" /\ resp.status = Forbidden
  /\ resp.pid \in DOMAIN orders
  /\ orders[resp.pid].estado = "PRODUCIDO"
  /\ resp.target = "QC" /\ resp.role = "AUXILIAR"
  /\ \A c \in Slots : calls[c].pc = "idle"

\* The call in slot c performs its update in this step.
Updates(c) ==
  /\ calls[c].pc = "update"
  /\ calls'[c].pc = "audit"

\* The fields of an order document other than estado, the stage timestamps,
\* the stage actors and the updatedAt that the schema maintains.
OtherFields ==
  {"codigo", "fechaProduccion", "lineaProduccion", "cantidadMezclas",
   "mezclas", "createdAt"}

Decision(estado, target, role) ==
  IF ~IsSuccessor(estado, target) THEN BadRequest
  ELSE IF role \notin C4_Permitted(target) THEN Forbidden
  ELSE OK

\* C11: transitions on different orders are independent.  Whatever calls run
\* on other orders, the document of order B changes only in the update of a
\* call on B; every audit record appended names the order of its own call;
\* and whether a call on B fails, and how, is decided by B's state alone.
C11_OrdersIndependent ==
  [][/\ DOMAIN orders' = DOMAIN orders
     /\ \A B \in DOMAIN orders :
          orders'[B] # orders[B] =>
            \E c \in Slots : Updates(c) /\ calls[c].pid = B
     /\ \A c \in Slots :
          Logs(c) => audit'[Len(audit')].entidadId = calls[c].pid
     /\ \A c \in Slots :
          (calls[c].pc = "idle" /\ calls'[c].pc = "update") =>
            /\ calls'[c].pid \in DOMAIN orders
            /\ Decision(orders[calls'[c].pid].estado, calls'[c].target,
                        calls'[c].role) = OK
     /\ (budget' < budget /\ calls' = calls) =>
          resp'.status = IF resp'.pid \in DOMAIN orders
                           THEN Decision(orders[resp'.pid].estado, resp'.target,
                                         resp'.role)
                           ELSE NotFound]_vars

\* C11 witness: a call on order 1 has updated it while a call on order 2,
\* which is in another state, waits for its own update; order 2 has not moved.
C11_Witness ==
  \E c1, c2 \in Slots :
    /\ calls[c1].pid = 1 /\ Updated(c1)
    /\ calls[c2].pid = 2 /\ calls[c2].pc = "update"
    /\ orders[2].estado = calls[c2].estadoLeido
    /\ orders[1].estado # orders[2].estado
    /\ orders[1].estado = calls[c1].target

\* The checks of validateCompleteDomain that the tuple data violates in cat.
FailedChecks(cat, data) ==
  {ch \in {"medicine", "lab", "vehicle", "container", "stability"} :
     CASE ch = "medicine" ->
            \/ data.medicamentoId \notin DOMAIN cat.medicines
            \/ ~cat.medicines[data.medicamentoId].habilitado
       [] ch = "lab" ->
            \/ data.laboratorioId \notin DOMAIN cat.labs
            \/ ~cat.labs[data.laboratorioId].habilitado
       [] ch = "vehicle" ->
            \/ data.vehiculoId \notin DOMAIN cat.vehicles
            \/ data.lineaProductiva
                 \notin cat.vehicles[data.vehiculoId].compatibleConLinea
       [] ch = "container" -> data.envaseId \notin cat.containers
       [] ch = "stability" ->
            ~\E i \in 1..Len(cat.stabilities) :
               /\ cat.stabilities[i].medicamentoId = data.medicamentoId
               /\ cat.stabilities[i].laboratorioId = data.laboratorioId
               /\ cat.stabilities[i].vehiculoId = data.vehiculoId
               /\ cat.stabilities[i].envaseId = data.envaseId}

\* The only violations of data are a disabled medicine and a vehicle that is
\* incompatible with the production line.
DisabledAndIncompatible(cat, data) ==
  /\ FailedChecks(cat, data) = {"medicine", "vehicle"}
  /\ data.medicamentoId \in DOMAIN cat.medicines
  /\ data.vehiculoId \in DOMAIN cat.vehicles

\* C12 as stated: validateCompleteDomain, for a tuple whose only violations
\* are a disabled medicine and an incompatible vehicle, returns a
\* ValidationResult with isValid = false and exactly two error messages.
C12_ReturnsInvalidResult ==
  (resp.kind = "validateCompleteDomain" /\ DisabledAndIncompatible(catalog, resp.data))
    => /\ resp.returned
       /\ resp.result.isValid = FALSE
       /\ Len(resp.result.errors) = 2

\* C12 amended: validateCompleteDomain runs all five checks without
\* short-circuiting: it collects one message for every check the tuple
\* violates; when there is any it throws a single 400 error that carries all
\* of them and returns no ValidationResult, and otherwise it returns isValid =
\* true with no errors.  For a disabled medicine with an incompatible vehicle
\* the error carries exactly those two messages.
C12_AllChecksRun ==
  resp.kind = "validateCompleteDomain" =>
    /\ Len(resp.message) = Cardinality(FailedChecks(catalog, resp.data))
    /\ FailedChecks(catalog, resp.data) # {} =>
         (resp.status = BadRequest /\ ~resp.returned)
    /\ FailedChecks(catalog, resp.data) = {} =>
         /\ resp.status = OK /\ resp.returned
         /\ resp.result = [isValid |-> TRUE, errors |-> <<>>]
    /\ DisabledAndIncompatible(catalog, resp.data) =>
         resp.message = <<"Medicamento no habilitado",
                          "Vehiculo no compatible con linea">>

\* C12 witness: a tuple with a disabled medicine and an incompatible vehicle,
\* and nothing else wrong, was refused with the two messages.
C12_Witness ==
  /\ resp.kind = "validateCompleteDomain"
  /\ DisabledAndIncompatible(catalog, resp.data)
  /\ resp.status = BadRequest
  /\ Len(resp.message) = 2

(***************************************************************************)
(* C13: Stability is matched on the exact 4-tuple.                         *)
(***************************************************************************)
\* The Stability collection holds a record with exactly the four identifiers.
ExactRecord(cat, medicamentoId, laboratorioId, vehiculoId, envaseId) ==
  \E i \in 1..Len(cat.stabilities) :
    /\ cat.stabilities[i].medicamentoId = medicamentoId
    /\ cat.stabilities[i].laboratorioId = laboratorioId
    /\ cat.stabilities[i].vehiculoId = vehiculoId
    /\ cat.stabilities[i].envaseId = envaseId

\* Some record shares the medicine, vehicle and container but none the four.
PartialRecordOnly(cat, data) ==
  /\ ~ExactRecord(cat, data.medicamentoId, data.laboratorioId,
                  data.vehiculoId, data.envaseId)
  /\ \E l \in DOMAIN cat.labs :
       ExactRecord(cat, data.medicamentoId, l, data.vehiculoId, data.envaseId)

RoundDiv(a, b) == (2 * a + b) \div (2 * b)

\* The smallest whole number that is at least a / b, for b > 0.
CeilDiv(a, b) == 0 - ((0 - a) \div b)

\* dose / (num / den) in hundredths, rounded half-up.
HalfUpHundredths(dose, m) == RoundDiv(dose * 100 * m.den, m.num)

\* C14: calculateVolumenExtraer returns the dose divided by the value of the
\* concentration, rounded half-up to 2 decimals, when the dose unit equals
\* the unit of the concentration ignoring case, and fails with the
\* unit-mismatch error when the two units differ.
C14_HalfUpOrMismatch ==
  resp.kind = "calculateVolumenExtraer" =>
    \A m \in {concentracionMatch(resp.concentracion)} :
      (m.ok /\ m.num > 0) =>
        IF toLowerCase(resp.unidadDosis) = toLowerCase(m.unidad)
          THEN /\ resp.status = OK
               /\ resp.value = HalfUpHundredths(resp.dosisPrescrita, m)
          ELSE /\ resp.status = BadRequest
               /\ resp.message = "Unidades no coinciden"

(***************************************************************************)
(* C15: the supply units.                                                  *)
(***************************************************************************)
\* C15: calculateUnidadesInsumo fails whenever the presentation volume is not
\* positive, and otherwise returns the ceiling of
\* (volumenExtraer / volumenPresentacion) * unidadesPresentacion.
C15_CeilingOrFail ==
  resp.kind = "calculateUnidadesInsumo" =>
    IF resp.volumenPresentacion <= 0
      THEN /\ resp.status = BadRequest
           /\ resp.message = "Volumen de presentacion debe ser mayor a 0"
      ELSE /\ resp.status = OK
           /\ resp.value = CeilDiv(resp.volumenExtraer * resp.unidadesPresentacion,
                                   100 * resp.volumenPresentacion)

(***************************************************************************)
(* C16: the dose is checked first.                                         *)
(***************************************************************************)
\* C16: calculateComplete rejects an input whose dose is not positive with
\* the dose error, whatever its concentration, units, presentation volume
\* and stability hours are, and generates no lot code for it.
C16_DoseRejectedFirst ==
  (resp.kind = "calculateComplete" /\ resp.input.dosisPrescrita <= 0) =>
    /\ resp.status = BadRequest
    /\ resp.result.message = "Dosis prescrita debe ser mayor a 0"
    /\ ~resp.result.loteGenerado

\* C16 witness: a dose that is not positive was rejected with the dose error
\* although the concentration has no number, the units differ, and the
\* presentation volume and the stability hours are not positive.
C16_Witness ==
  /\ resp.kind = "calculateComplete"
  /\ resp.input.dosisPrescrita <= 0
  /\ ~concentracionMatch(resp.input.concentracion).ok
  /\ resp.input.unidadDosis # mg
  /\ resp.input.volumenPresentacion <= 0
  /\ resp.input.horasEstabilidad <= 0
  /\ resp.status = BadRequest
  /\ resp.result.message = "Dosis prescrita debe ser mayor a 0"
  /\ ~resp.result.loteGenerado

(***************************************************************************)
(* C17: the calculation from the catalog.                                  *)
(***************************************************************************)
\* C17: calculateFromDatabase fails with NotFound when the medicine is absent
\* or when no Stability record has the four identifiers, fails with the
\* no-presentations error when the medicine has no presentation, and
\* otherwise returns what calculateComplete returns for the concentration of
\* the medicine, its first presentation and the hours of the Stability
\* record.
C17_FromDatabase ==
  resp.kind = "calculateFromDatabase" =>
    IF resp.medicamentoId \notin DOMAIN catalog.medicines
      THEN resp.status = NotFound /\ resp.result.message = "Medicamento no encontrado"
    ELSE IF ~ExactRecord(catalog, resp.medicamentoId, resp.laboratorioId,
                         resp.vehiculoId, resp.envaseId)
      THEN resp.status = NotFound /\ resp.result.message = "Estabilidad no encontrada"
    ELSE IF catalog.medicines[resp.medicamentoId].presentaciones = <<>>
      THEN /\ resp.status = BadRequest
           /\ resp.result.message = "Medicamento no tiene presentaciones"
    ELSE \E i \in 1..Len(catalog.stabilities) :
           /\ catalog.stabilities[i].medicamentoId = resp.medicamentoId
           /\ catalog.stabilities[i].laboratorioId = resp.laboratorioId
           /\ catalog.stabilities[i].vehiculoId = resp.vehiculoId
           /\ catalog.stabilities[i].envaseId = resp.envaseId
           /\ resp.result =
                calculateComplete(
                  [dosisPrescrita |-> resp.dosisPrescrita,
                   unidadDosis |-> resp.unidadDosis,
                   concentracion |-> catalog.medicines[resp.medicamentoId].concentracion,
                   volumenPresentacion |->
                     Head(catalog.medicines[resp.medicamentoId].presentaciones).volumen,
                   unidadesPresentacion |->
                     Head(catalog.medicines[resp.medicamentoId].presentaciones).cantidad,
                   horasEstabilidad |-> catalog.stabilities[i].horasEstabilidad],
                  resp.ahora, resp.random)

\* C17 witness: a calculation for laboratory 1 succeeded over a catalog whose
\* first Stability record is that of laboratory 2, with other hours, and
\* whose medicine has two presentations: the expiry is that of the record
\* of laboratory 1 and the units are those of the first presentation.
C17_Witness ==
  /\ resp.kind = "calculateFromDatabase"
  /\ resp.status = OK
  /\ resp.laboratorioId = 1
  /\ Len(catalog.stabilities) = 2
  /\ Len(catalog.medicines[1].presentaciones) = 2
  /\ resp.result.fechaVencimiento = resp.ahora + 24
  /\ resp.result.unidadesInsumo = 1

(***************************************************************************)
(* C18: the expiry of a mix.                                               *)
(***************************************************************************)
\* C18: the fechaVencimiento stored with every mix of a created order is the
\* time base of the order plus the horasEstabilidad of a Stability record
\* for the medicine, vehicle and container of the mix, the sum that
\* calculateFechaVencimiento computes.
C18_ExpiryFromStability ==
  \A o \in DOMAIN orders : \A i \in 1..Len(orders[o].mezclas) :
    \E k \in 1..Len(catalog.stabilities) :
      /\ catalog.stabilities[k].medicamentoId = orders[o].mezclas[i].medicamento.id
      /\ catalog.stabilities[k].vehiculoId = orders[o].mezclas[i].vehiculo.id
      /\ catalog.stabilities[k].envaseId = orders[o].mezclas[i].envase.id
      /\ \E fv \in {calculateFechaVencimiento(orders[o].fechaProduccion,
                      catalog.stabilities[k].horasEstabilidad)} :
           fv.status = OK /\ orders[o].mezclas[i].fechaVencimiento = fv.value

(***************************************************************************)
(* C19: the mixes of a created order.                                      *)
(***************************************************************************)
\* The stored mix is the one made from the requested mix.
FromRequest(mezcla, mezclaData) ==
  /\ mezcla.paciente = mezclaData.paciente
  /\ mezcla.medicamento.id = mezclaData.medicamentoId
  /\ mezcla.medicamento.dosisPrescrita = mezclaData.dosisPrescrita
  /\ mezcla.medicamento.unidadDosis = mezclaData.unidadDosis
  /\ mezcla.vehiculo.id = mezclaData.vehiculoId
  /\ mezcla.envase.id = mezclaData.envaseId

\* volumenTotal = volumenExtraer + volumenVehiculo to within 0.01 ml.
TotalIsSum(calculos) ==
  /\ calculos.volumenTotal - (calculos.volumenExtraer + calculos.volumenVehiculo) <= 1
  /\ (calculos.volumenExtraer + calculos.volumenVehiculo) - calculos.volumenTotal <= 1

C20_AppendedIsFirst ==
  (/\ resp.kind = "getAuditHistory"
   /\ Len(audit) > 0
   /\ audit[Len(audit)].entidadId = resp.entidadId) =>
    /\ Len(resp.list) > 0
    /\ resp.list[1] = Len(audit)
    /\ \A j, k \in 1..Len(resp.list) :
         j < k => audit[resp.list[j]].timestamp >= audit[resp.list[k]].timestamp

(***************************************************************************)
(* C21: the audit log is append-only.  Every step of the workflow and of   *)
(* the audit queries (by entity, by user, by entity type, paginated,       *)
(* distinct entity types, distinct users) leaves the stored records as     *)
(* they are, or appends exactly one record after them, and a step that     *)
(* appends is the logAction of a running call.                             *)
(***************************************************************************)
IsQuery(r) ==
  r.kind \in {"getAuditHistory", "getUserActions", "getActionsByEntity",
              "getAllAudits", "getAvailableEntities", "getAvailableUsers"}

C21_AppendOnly ==
  [][\/ audit' = audit
     \/ /\ Len(audit') = Len(audit) + 1
        /\ SubSeq(audit', 1, Len(audit)) = audit
        /\ \E c \in Slots :
             /\ calls[c].pc = "audit"
             /\ calls'[c].pc # "audit"
             /\ audit'[Len(audit')].entidadId = calls[c].pid
             /\ audit'[Len(audit')].usuarioId = calls[c].user
        /\ (resp' = resp \/ ~IsQuery(resp'))]_vars

\* A paginated query returned two records, one of them written by a
\* transition that ran in this behaviour.
C21_Witness ==
  /\ resp.kind = "getAllAudits"
  /\ Len(resp.list) = 2
  /\ Len(audit) > MaxLogSeed
  /\ audit[Len(audit)].accion = "STATE_TRANSITION"

(***************************************************************************)
(* C23: every documented audit endpoint reaches its own handler.  The      *)
(* answer to GET /audit/user/:userId by a permitted role comes from        *)
(* getUserActions and lists the records whose usuarioId is that user, and  *)
(* the answer to GET /audit/entity/:entidad comes from getActionsByEntity; *)
(* neither request is answered by the history route.                       *)
(***************************************************************************)
C23_OwnHandler ==
  (resp.kind = "audit" /\ resp.status # Forbidden /\ Len(resp.path) = 2) =>
    /\ resp.path[1] = "user" =>
         /\ resp.handler = "getUserActions"
         /\ resp.data \in getUserActions(audit, ObjectId(resp.path[2]), DefaultLimit)
    /\ resp.path[1] = "entity" =>
         /\ resp.handler = "getActionsByEntity"
         /\ resp.data \in getActionsByEntity(audit, resp.path[2], DefaultLimit)

(***************************************************************************)
(* C22: two getProductionById calls for one order with no transition of    *)
(* that order between them return the same snapshot.  Stated step by step: *)
(* a step that is not the update of a transition of the order leaves the   *)
(* snapshot that getProductionById returns for it as it was, whatever else *)
(* the step does (a user update, an audit append, a generated document).   *)
(***************************************************************************)
C22_SameSnapshot ==
  [][\A o \in DOMAIN orders :
       (~\E c \in Slots : Updates(c) /\ calls[c].pid = o) =>
         /\ o \in DOMAIN orders'
         /\ getProductionById(orders', users', o) = getProductionById(orders, users, o)]_vars

(***************************************************************************)
(* C24: a POST /documents/:productionId/generate-all request by an         *)
(* AUXILIAR, QUIMICO or COORDINADOR for an existing order is answered by   *)
(* generateAll with status 200 and a map from each of the six document     *)
(* types to the URL of the generated document or to null; it is not taken  *)
(* for a request to generate one document of type "generate-all".          *)
(***************************************************************************)
C24_GenerateAllHandled ==
  (/\ resp.kind = "documents"
   /\ Len(resp.path) = 2
   /\ resp.path[2] = "generate-all"
   /\ isValid(resp.path[1])
   /\ ObjectId(resp.path[1]) \in DOMAIN orders
   /\ resp.role \in WriterRoles) =>
    /\ resp.handler = "generateAll"
    /\ resp.status = OK
    /\ DOMAIN resp.data = {DocumentType[i] : i \in 1..Len(DocumentType)}
    /\ \A t \in DOMAIN resp.data :
         resp.data[t] \in {NoUrl, fileName(t, ObjectId(resp.path[1]))}

(***************************************************************************)
(* C30: document generation is gated by the state of the order.  A step    *)
(* that stores a Document of type ORDEN or INSUMOS is made by a generator  *)
(* that read the order in CALCULADO or a later state, one of type QC in QC, *)
(* ETIQUETADO or FINALIZADO, one of type ETIQUETAS in ETIQUETADO or        *)
(* FINALIZADO, one of type ACTA in FINALIZADO; and a request for a single  *)
(* document whose generator read the order outside these states is         *)
(* answered with 400 in a step that stores no document.                    *)
(***************************************************************************)
StatesFrom(estado) == {s \in StateNames : Pos(s) >= Pos(estado)}

GeneratedIn(tipo) ==
  CASE tipo = "SOLICITUD" -> StateNames
    [] tipo \in {"ORDEN", "INSUMOS"} -> StatesFrom("CALCULADO")
    [] tipo = "QC" -> {"QC", "ETIQUETADO", "FINALIZADO"}
    [] tipo = "ETIQUETAS" -> {"ETIQUETADO", "FINALIZADO"}
    [] tipo = "ACTA" -> {"FINALIZADO"}

C30_GatedByState ==
  [][/\ documents' # documents =>
          \E c \in Slots :
            /\ calls[c].pc = "store"
            /\ documents' = Append(documents,
                              DocumentRecord(calls[c].pid, calls[c].tipo,
                                             calls[c].user, clock))
            /\ calls[c].pid \in DOMAIN orders
            /\ calls[c].estadoLeido \in GeneratedIn(calls[c].tipo)
     /\ \A c \in Slots :
          (/\ calls[c].pc = "gate"
           /\ calls[c].kind = "generate"
           /\ calls[c].pid \in DOMAIN orders
           /\ orders[calls[c].pid].estado \notin GeneratedIn(calls[c].tipo)
           /\ calls'[c] # calls[c]) =>
            /\ resp'.kind = "documents"
            /\ resp'.status = BadRequest
            /\ resp'.tipo = calls[c].tipo
            /\ documents' = documents]_vars

\* An order document was stored for a calculated order, and then a request
\* for the QC document of the order was refused with 400.
C30_Witness ==
  /\ resp.kind = "documents"
  /\ resp.handler = "generate"
  /\ resp.tipo = "QC"
  /\ resp.status = BadRequest
  /\ resp.estadoLeido = "CALCULADO"
  /\ \E i \in 1..Len(documents) : documents[i].tipo = "ORDEN"

(***************************************************************************)
(* C25: the cache invalidation of a successful POST /medicines deletes     *)
(* every key that generateKey produces for GET /medicines, with or without *)
(* query parameters.  When the invalidation has run and no other request   *)
(* is under way, a list key that is still set is one that the patterns of  *)
(* the invalidation match, so that it was set after they were deleted; no  *)
(* list response that the invalidation cannot reach remains.               *)
(***************************************************************************)
C25_ListInvalidated ==
  [][\A c \in Slots :
       (/\ calls[c].pc = "invalidate"
        /\ calls[c].kind = "createMedicine"
        /\ calls'[c].pc = "idle"
        /\ \A d \in Slots \ {c} : calls[d].pc = "idle") =>
         \A query \in MedicineQueries :
           generateKey(MedicinesName, query) \in DOMAIN cache' =>
             generateKey(MedicinesName, query)
               \notin DOMAIN invalidateEntity(cache', MedicinesName, <<>>)]_vars

(***************************************************************************)
(* C26: a GET /productions/:id request that arrives while no POST          *)
(* /productions/:id/transition is being handled and no cache invalidation  *)
(* of one is still to run, and that is answered from the cache, returns    *)
(* the stored state of the order: no earlier GET left a stale entry.       *)
(***************************************************************************)
C26_NoStaleRead ==
  [][(/\ budget' < budget
      /\ resp'.kind = "getById"
      /\ resp'.req = budget
      /\ resp'.status = OK
      /\ \A c \in Slots : calls[c].kind # "transitionRoute") =>
       resp'.body.estado = orders[resp'.pid].estado]_vars

(***************************************************************************)
(* C27: a validateAndCalculate call by a QUIMICO or COORDINADOR, alone on  *)
(* an order whose mixes all pass domain validation, ends with the order in *)
(* CALCULADO when it started in CREADO or in VALIDADO, and fails with      *)
(* status 400 and the order as it was when it started in CALCULADO or a    *)
(* later state.  Of the transitions CREADO -> VALIDADO and VALIDADO ->     *)
(* CALCULADO that it makes, each whose audit insert did not fail has its   *)
(* STATE_TRANSITION record, and the records are in that order.             *)
(***************************************************************************)
\* Some mix of the order fails the validation of validateAndCalculate: its
\* medicine or its stability record is missing, or a domain check fails.
MixFails(cat, production) ==
  \E i \in 1..Len(production.mezclas) :
    LET mezcla == production.mezclas[i]
        e == findStabilityNoLab(cat, mezcla.medicamento.id, mezcla.vehiculo.id,
                                mezcla.envase.id)
    IN \/ mezcla.medicamento.id \notin DOMAIN cat.medicines
       \/ e = 0
       \/ /\ mezcla.medicamento.id \in DOMAIN cat.medicines
          /\ e # 0
          /\ validateCompleteDomain(cat,
               [medicamentoId |-> mezcla.medicamento.id,
                laboratorioId |-> cat.stabilities[e].laboratorioId,
                vehiculoId |-> mezcla.vehiculo.id,
                envaseId |-> mezcla.envase.id,
                lineaProductiva |-> production.lineaProduccion]).status # OK

\* The call found order 1 in estado, and its mixes pass domain validation:
\* estado is the last state that the order reached before the call, whose
\* own updates carry the time of the call.
StartedIn(estado) ==
  /\ 1 \in DOMAIN orders
  /\ ~MixFails(catalog, orders[1])
  /\ \A s \in StateNames :
       (Pos(s) <= Pos(estado)) <=>
         (/\ orders[1].timestamps[lowerName(s)] # None
          /\ orders[1].timestamps[lowerName(s)] < clock)

\* The transitions that the audit records name which were appended to the
\* log of an order that was in estado at the start.
Logged(estado) ==
  [i \in 1..(Len(audit) - Pos(estado)) |->
     <<audit[Pos(estado) + i].accion,
       audit[Pos(estado) + i].cambios.estadoAnterior,
       audit[Pos(estado) + i].cambios.estadoNuevo>>]

ToValidado == <<"STATE_TRANSITION", "CREADO", "VALIDADO">>
ToCalculado == <<"STATE_TRANSITION", "VALIDADO", "CALCULADO">>

\* The transitions of a call that started in estado.
TransitionsFrom(estado) ==
  IF estado = "CREADO" THEN <<ToValidado, ToCalculado>>
  ELSE IF estado = "VALIDADO" THEN <<ToCalculado>>
  ELSE <<>>

\* The sequences that seq becomes when some of its elements are left out.
RECURSIVE Subsequences(_)
Subsequences(seq) ==
  IF seq = <<>> THEN {<<>>}
  ELSE LET rest == Subsequences(Tail(seq))
       IN rest \cup {<<Head(seq)>> \o r : r \in rest}

\* What the call that returned left behind, but for the audit log.
Ended(estado) ==
  IF estado \in {"CREADO", "VALIDADO"}
    THEN /\ resp.status = OK
         /\ orders[1].estado = "CALCULADO"
    ELSE /\ resp.status = BadRequest
         /\ orders = Seed(Pos(estado)).orders

\* The claim as it was made: every transition has its audit record.
C27_AllLogged ==
  \A estado \in StateNames :
    (StartedIn(estado) /\ resp.kind = "vac" /\ resp.pid = 1) =>
      (Ended(estado) /\ Logged(estado) = TransitionsFrom(estado))

C27_ValidateAndCalculate ==
  \A estado \in StateNames :
    (StartedIn(estado) /\ resp.kind = "vac" /\ resp.pid = 1) =>
      (Ended(estado) /\ Logged(estado) \in Subsequences(TransitionsFrom(estado)))

\* A call on an order in CREADO returned with the order in CALCULADO; the
\* audit insert of its first transition failed, that of its second did not.
C27_Witness ==
  /\ resp.kind = "vac"
  /\ resp.status = OK
  /\ ~MixFails(catalog, orders[1])
  /\ orders[1].estado = "CALCULADO"
  /\ orders[1].timestamps.validado = clock
  /\ Logged("CREADO") = <<ToCalculado>>

(***************************************************************************)
(* C28: when a mix of the order fails domain validation, or its medicine   *)
(* or stability record is missing, validateAndCalculate makes no           *)
(* transition: the call returns with 400 or 404 before any, the order      *)
(* (state, stage actors, stage timestamps) and the audit log are as they   *)
(* were, and no call of validateAndCalculate is ever under way on such an  *)
(* order.                                                                  *)
(***************************************************************************)
C28_NoTransition ==
  [][/\ \A o \in DOMAIN orders :
          (/\ MixFails(catalog, orders[o])
           /\ budget' < budget
           /\ \/ calls' = calls /\ resp'.kind = "vac" /\ resp'.pid = o
              \/ \E c \in Slots : calls'[c] # calls[c] /\ calls'[c].kind = "vac"
                                    /\ calls'[c].pid = o) =>
            /\ calls' = calls
            /\ resp'.status \in {BadRequest, NotFound}
            /\ orders' = orders
            /\ audit' = audit
     /\ \A c \in Slots :
          (calls'[c].kind = "vac" /\ calls'[c].pid \in DOMAIN orders') =>
            ~MixFails(catalog', orders'[calls'[c].pid])]_vars

\* A call on an order in CREADO whose medicine is no longer enabled was
\* refused with 400.
C28_Witness ==
  /\ resp.kind = "vac"
  /\ resp.status = BadRequest
  /\ resp.pid \in DOMAIN orders
  /\ orders[resp.pid].estado = "CREADO"
  /\ ~catalog.medicines[1].habilitado
  /\ MixFails(catalog, orders[resp.pid])

(***************************************************************************)
(* C29: createProduction is all-or-nothing.  A call that fails (an empty   *)
(* mix list, a mix that fails its catalog lookup, its domain validation or *)
(* its calculation) returns before Production.create: it stores no order   *)
(* and appends no audit record.  A call that succeeds stores exactly one   *)
(* order, in CREADO, with creadoPor and timestamps.creado set and no other *)
(* stage actor or timestamp, changes no other order, and appends one       *)
(* CREATE audit record for it unless the audit insert fails, in which case *)
(* it appends none; it then returns successfully.                          *)
(***************************************************************************)
\* A createProduction call returns in the step in which it started.
CreateRefused ==
  /\ budget' < budget
  /\ calls' = calls
  /\ resp'.kind = "create"

\* Slot c starts a createProduction call that goes on after this step.
CreateStored(c) ==
  /\ calls[c].pc = "idle"
  /\ calls'[c].pc # "idle"
  /\ calls'[c].kind = "create"

\* The order that the call starting in slot c stored, and nothing else.
OneOrderStored(c) ==
  LET o == calls'[c].pid
  IN /\ o \notin DOMAIN orders
     /\ DOMAIN orders' = DOMAIN orders \cup {o}
     /\ \A p \in DOMAIN orders : orders'[p] = orders[p]
     /\ orders'[o].estado = "CREADO"
     /\ orders'[o].por["creado"] = calls'[c].user
     /\ orders'[o].timestamps["creado"] = clock
     /\ \A s \in StateNames \ {"CREADO"} : StageUnset(orders'[o], s)
     /\ audit' = audit
     /\ calls'[c].pc = "audit"

\* The call in slot c leaves its audit insert behind in this step.
CreateLogs(c) ==
  /\ calls[c].kind = "create"
  /\ calls[c].pc = "audit"
  /\ calls'[c] # calls[c]

CreateRecord(c) ==
  AuditRecord(calls[c].pid, "CREATE", CreateCambios(orders[calls[c].pid]),
              calls[c].user, clock)

\* The call in slot c returns after its last read of the order.
CreateReturns(c) ==
  /\ calls[c].kind = "create"
  /\ calls[c].pc = "final"
  /\ calls'[c] # calls[c]

\* What every step of a createProduction call does, but for its audit
\* insert, and that CREATE records come from such inserts only.
CreateSteps ==
  /\ CreateRefused => (resp'.status # OK /\ orders' = orders /\ audit' = audit)
  /\ \A c \in Slots : CreateStored(c) => OneOrderStored(c)
  /\ \A c \in Slots : CreateLogs(c) => (orders' = orders /\ calls'[c].pc = "final")
  /\ \A c \in Slots :
       CreateReturns(c) =>
         (orders' = orders /\ audit' = audit /\ resp'.kind = "create"
          /\ resp'.status = OK /\ resp'.pid = calls[c].pid)
  /\ (Len(audit') > Len(audit) /\ audit'[Len(audit')].accion = "CREATE") =>
       \E c \in Slots : CreateLogs(c) /\ audit' = Append(audit, CreateRecord(c))

\* The claim as it was made: every order stored has its CREATE record.
C29_AlwaysLogged ==
  [][/\ CreateSteps
     /\ \A c \in Slots : CreateLogs(c) => audit' = Append(audit, CreateRecord(c))]_vars

C29_AllOrNothing ==
  [][/\ CreateSteps
     /\ \A c \in Slots :
          CreateLogs(c) => audit' \in {audit, Append(audit, CreateRecord(c))}]_vars

\* Of two calls, the later one stored order 1 and its CREATE record and
\* returned; the collections hold nothing else.
C29_Witness ==
  /\ resp.kind = "create"
  /\ resp.status = OK
  /\ resp.log = "stored"
  /\ budget = MaxCalls - 2
  /\ DOMAIN orders = {resp.pid}
  /\ orders[resp.pid].estado = "CREADO"
  /\ Len(audit) = 1
  /\ audit[1].accion = "CREATE"
  /\ audit[1].entidadId = resp.pid

====
